---- MODULE Spec2Model ----
(***************************************************************************)
(* A model of src/src/nvimage.js: the NVImage constructor (affine          *)
(* resolution, byte swapping, datatype switch), calculateRAS, calMinMax,   *)
(* the loaders loadFromUrl / loadFromFile and the clone / zeroImage /      *)
(* zerosLike / setColorMap helpers.                                        *)
(*                                                                         *)
(* JavaScript numbers are modelled as integers plus the value NaN.  Every  *)
(* arithmetic operator and comparison used below follows the IEEE rules    *)
(* for NaN (NaN is absorbing, every comparison with NaN is false).         *)
(* Infinite values are not modelled.                                       *)
(***************************************************************************)
EXTENDS Integers, Sequences, FiniteSets, TLC

VARIABLES
  pc,        \* position of the scenario under check
  mtx,       \* a 4x4 matrix handed to isAffineOK / held in hdr.affine for calculateRAS
  affineOK,  \* the value returned by isAffineOK(mtx)
  ras,       \* the fields computed by calculateRAS: ixyz, perm, flip
  buf,       \* the bytes of imgRaw during the constructor's swap pass
  swp,       \* the swap scenario: original bytes, element width, number of passes
  args,      \* the arguments of one constructor / loader call
  outcome,   \* what that call produced
  file,      \* the decoded file every image of the lifecycle scenario is built from
  images,    \* the NVImage objects alive, in creation order
  heap,      \* per image, the object holding its header arrays and the one holding its voxels
  lastOp     \* the last operation applied to the images

vars == <<pc, mtx, affineOK, ras, buf, swp, args, outcome, file, images, heap, lastOp>>

(***************************************************************************)
(* JavaScript numbers                                                      *)
(***************************************************************************)
\* a value no computation of the model reaches stands for NaN
NaN == 2000 * 1000 * 1000

\* the value of a field that was never assigned; in arithmetic it acts as NaN
Undefined == NaN + 1

isNaN(x) == x = NaN \/ x = Undefined

\* the operator ===
StrictEq(x, y) == IF x = NaN \/ y = NaN THEN FALSE ELSE x = y

Mul(x, y) == IF isNaN(x) \/ isNaN(y) THEN NaN ELSE x * y

Add(x, y) == IF isNaN(x) \/ isNaN(y) THEN NaN ELSE x + y

Sub(x, y) == IF isNaN(x) \/ isNaN(y) THEN NaN ELSE x - y

Gt(x, y) == ~isNaN(x) /\ ~isNaN(y) /\ x > y

Lt(x, y) == ~isNaN(x) /\ ~isNaN(y) /\ x < y

Ge(x, y) == ~isNaN(x) /\ ~isNaN(y) /\ x >= y

Le(x, y) == ~isNaN(x) /\ ~isNaN(y) /\ x <= y

MathAbs(x) == IF isNaN(x) THEN NaN ELSE IF x < 0 THEN 0 - x ELSE x

(***************************************************************************)
(* isAffineOK, nvimage.js lines 125-147                                    *)
(***************************************************************************)
\* a plausible slip: only the rows of the 3x3 block are tested, and only
\* that block is searched for NaN
isAffineOK_RowsOnly(m) ==
  IF \E i \in 0..2 : \E j \in 0..2 : isNaN(m[i][j]) THEN FALSE
  ELSE \A i \in 0..2 : \E j \in 0..2 : m[i][j] # 0

isAffineOK(m) ==
  IF \E i \in 0..3 : \E j \in 0..3 : isNaN(m[i][j]) THEN FALSE
  ELSE LET iOK == [i \in 0..2 |-> \E j \in 0..2 : m[i][j] # 0]
           jOK == [j \in 0..2 |-> \E i \in 0..2 : m[i][j] # 0]
       IN  \A i \in 0..2 : iOK[i] /\ jOK[i]

(***************************************************************************)
(* calculateRAS, nvimage.js lines 933-1067: the axis assignment ixyz, its  *)
(* inverse perm and the flip vector.  Arrays keep the source's 0-based     *)
(* indices.                                                                *)
(***************************************************************************)
Arr3(x, y, z) == [k \in 0..2 |-> IF k = 0 THEN x ELSE IF k = 1 THEN y ELSE z]

Put(arr, k, v) == [i \in DOMAIN arr \cup {k} |-> IF i = k THEN v ELSE arr[i]]

RASFields(a, ixyz0, ixyz1) ==
  LET ixyz2 == 6 - ixyz1 - ixyz0
      ixyz == Arr3(ixyz0, ixyz1, ixyz2)
      perm == Put(Put(Put(Arr3(1, 2, 3), ixyz0 - 1, 1), ixyz1 - 1, 2), ixyz2 - 1, 3)
      R(i, j) == IF perm[j] - 1 \in 0..3 THEN a[i][perm[j] - 1] ELSE NaN
      flip == [k \in 0..2 |-> IF Lt(R(k, k), 0) THEN 1 ELSE 0]
  IN  [ixyz |-> ixyz, perm |-> perm, flip |-> flip]

\* a plausible slip: the second axis is the largest entry of the second
\* column, whatever axis the first column took
calculateRAS_FreeSecondAxis(a) ==
  LET absR(i, j) == MathAbs(a[i][j])
      x1 == IF Gt(absR(1, 0), absR(0, 0)) THEN 2 ELSE 1
      ixyz0 == IF Gt(absR(2, 0), absR(0, 0)) /\ Gt(absR(2, 0), absR(1, 0)) THEN 3 ELSE x1
      y1 == IF Gt(absR(1, 1), absR(0, 1)) THEN 2 ELSE 1
      ixyz1 == IF Gt(absR(2, 1), absR(0, 1)) /\ Gt(absR(2, 1), absR(1, 1)) THEN 3 ELSE y1
  IN  RASFields(a, ixyz0, ixyz1)

calculateRAS(a) ==
  LET absR(i, j) == MathAbs(a[i][j])
      x1 == IF Gt(absR(1, 0), absR(0, 0)) THEN 2 ELSE 1
      ixyz0 == IF Gt(absR(2, 0), absR(0, 0)) /\ Gt(absR(2, 0), absR(1, 0)) THEN 3 ELSE x1
      ixyz1 == IF ixyz0 = 1
                 THEN (IF Gt(absR(1, 1), absR(2, 1)) THEN 2 ELSE 3)
               ELSE IF ixyz0 = 2
                 THEN (IF Gt(absR(0, 1), absR(2, 1)) THEN 1 ELSE 3)
               ELSE (IF Gt(absR(0, 1), absR(1, 1)) THEN 1 ELSE 2)
  IN  RASFields(a, ixyz0, ixyz1)

(***************************************************************************)
(* The constructor's header repairs and affine resolution, nvimage.js      *)
(* lines 148-222.  The quaternion parameters b, c, d are held as multiples *)
(* of 1/QuatUnit (quatern_b = 1 is the number 1.0 times QuatUnit), so that *)
(* a = sqrt(1 - (b^2 + c^2 + d^2)) is exact; every other number is in its  *)
(* own unit.                                                               *)
(***************************************************************************)
QuatUnit == 2

QuatOne == QuatUnit * QuatUnit

\* Math.sqrt: NaN for NaN and for a negative argument
MathSqrt(x) ==
  IF isNaN(x) \/ x < 0 THEN NaN ELSE CHOOSE r \in 0..x : r * r = x

IsSquare(x) == \E r \in 0..x : r * r = x

\* x / QuatOne, for the products of two quaternion parameters
Unscale(x) == IF isNaN(x) THEN NaN ELSE x \div QuatOne

\* a plausible slip: only a NaN slope is replaced, a slope of 0 is kept
RepairScaling_NaNOnly(hdr) ==
  LET slope == IF isNaN(hdr.scl_slope) THEN 1 ELSE hdr.scl_slope
      inter == IF isNaN(hdr.scl_inter) THEN 0 ELSE hdr.scl_inter
  IN  [hdr EXCEPT !.scl_slope = slope, !.scl_inter = inter]

\* lines 148-150
RepairScaling(hdr) ==
  LET slope == IF isNaN(hdr.scl_slope) \/ hdr.scl_slope = 0 THEN 1 ELSE hdr.scl_slope
      inter == IF isNaN(hdr.scl_inter) THEN 0 ELSE hdr.scl_inter
  IN  [hdr EXCEPT !.scl_slope = slope, !.scl_inter = inter]

\* lines 160-201: the affine written in place from the quaternion
QFormAffine(hdr) ==
  LET b == hdr.quatern_b
      c == hdr.quatern_c
      d == hdr.quatern_d
      a == MathSqrt(Sub(QuatOne, Add(Add(Mul(b, b), Mul(c, c)), Mul(d, d))))
      qfac == IF hdr.pixDims[0] = 0 THEN 1 ELSE hdr.pixDims[0]
      quatern_R ==
        [i \in 0..2 |-> [j \in 0..2 |->
          CASE i = 0 /\ j = 0 -> Sub(Sub(Add(Mul(a, a), Mul(b, b)), Mul(c, c)), Mul(d, d))
            [] i = 0 /\ j = 1 -> Sub(Mul(Mul(2, b), c), Mul(Mul(2, a), d))
            [] i = 0 /\ j = 2 -> Add(Mul(Mul(2, b), d), Mul(Mul(2, a), c))
            [] i = 1 /\ j = 0 -> Add(Mul(Mul(2, b), c), Mul(Mul(2, a), d))
            [] i = 1 /\ j = 1 -> Sub(Sub(Add(Mul(a, a), Mul(c, c)), Mul(b, b)), Mul(d, d))
            [] i = 1 /\ j = 2 -> Sub(Mul(Mul(2, c), d), Mul(Mul(2, a), b))
            [] i = 2 /\ j = 0 -> Sub(Mul(Mul(2, b), d), Mul(Mul(2, a), c))
            [] i = 2 /\ j = 1 -> Add(Mul(Mul(2, c), d), Mul(Mul(2, a), b))
            [] OTHER          -> Sub(Sub(Add(Mul(a, a), Mul(d, d)), Mul(c, c)), Mul(b, b))]]
      cell(ctrOut, ctrIn) ==
        LET v == Unscale(Mul(quatern_R[ctrOut][ctrIn], hdr.pixDims[ctrIn + 1]))
        IN  IF ctrIn = 2 THEN Mul(v, qfac) ELSE v
      offset == Arr3(hdr.qoffset_x, hdr.qoffset_y, hdr.qoffset_z)
  IN  [i \in 0..3 |-> [j \in 0..3 |->
        IF i < 3 /\ j < 3 THEN cell(i, j)
        ELSE IF i < 3 THEN offset[i]
        ELSE hdr.affine[i][j]]]

\* a plausible slip: the two codes are not compared
SelectQForm_NoCodes(hdr, useQFormNotSForm) ==
  IF useQFormNotSForm \/ ~isAffineOK(hdr.affine)
    THEN [hdr EXCEPT !.affine = QFormAffine(hdr)]
    ELSE hdr

\* lines 151-202
SelectQForm(hdr, useQFormNotSForm) ==
  IF useQFormNotSForm \/ ~isAffineOK(hdr.affine) \/ Gt(hdr.qform_code, hdr.sform_code)
    THEN [hdr EXCEPT !.affine = QFormAffine(hdr)]
    ELSE hdr

Diag(x, y, z) ==
  [i \in 0..3 |-> [j \in 0..3 |->
     IF i # j THEN 0 ELSE IF i = 0 THEN x ELSE IF i = 1 THEN y ELSE IF i = 2 THEN z ELSE 1]]

\* a plausible slip: the spacings are used as stored, a zero or NaN spacing
\* is not replaced by 1
RepairAffine_RawSpacing(hdr) ==
  IF isAffineOK(hdr.affine) THEN hdr
  ELSE [hdr EXCEPT !.affine = Diag(hdr.pixDims[1], hdr.pixDims[2], hdr.pixDims[3])]

\* lines 203-222
RepairAffine(hdr) ==
  IF isAffineOK(hdr.affine) THEN hdr
  ELSE LET fix(v) == IF isNaN(v) \/ v = 0 THEN 1 ELSE v
           x == fix(hdr.pixDims[1])
           y == fix(hdr.pixDims[2])
           z == fix(hdr.pixDims[3])
       IN  [hdr EXCEPT !.pixDims = [k \in DOMAIN hdr.pixDims |->
                                      IF k = 1 THEN x ELSE IF k = 2 THEN y
                                      ELSE IF k = 3 THEN z ELSE hdr.pixDims[k]],
                       !.affine = Diag(x, y, z)]

(***************************************************************************)
(* Voxel bytes.  imgRaw is a sequence of bytes in file order; a typed      *)
(* array over it reads and writes its elements in the platform's byte      *)
(* order.  A 32-bit value is kept as its four bytes, least significant     *)
(* first, so that JavaScript's 32-bit operators are exact.                 *)
(***************************************************************************)
DT_UNSIGNED_CHAR == 2

DT_SIGNED_SHORT == 4

DT_SIGNED_INT == 8

DT_FLOAT == 16

DT_COMPLEX == 32

DT_DOUBLE == 64

DT_RGB == 128

DT_INT8 == 256

DT_UINT16 == 512

DT_UINT32 == 768

DT_INT64 == 1024

DT_UINT64 == 1280

DT_RGBA32 == 2304

RECURSIVE BitOr(_, _)
BitOr(x, y) ==
  IF x = 0 THEN y
  ELSE IF y = 0 THEN x
  ELSE (IF x % 2 = 1 \/ y % 2 = 1 THEN 1 ELSE 0) + 2 * BitOr(x \div 2, y \div 2)

\* the operators |, &, <<, >> on 32-bit values held as bytes; masks and
\* shift counts are whole bytes
Or32(x, y) == [k \in 0..3 |-> BitOr(x[k], y[k])]

And32(x, maskBytes) == [k \in 0..3 |-> IF k \in maskBytes THEN x[k] ELSE 0]

Shl32(x, n) == [k \in 0..3 |-> IF k >= n THEN x[k - n] ELSE 0]

Sar32(x, n) == [k \in 0..3 |-> IF k + n <= 3 THEN x[k + n]
                                ELSE IF x[3] >= 128 THEN 255 ELSE 0]

\* line 235, on a Uint16Array element
swap16(val) ==
  LET t == BitOr((val % 256) * 256, (val \div 256) % 256)
      s == IF t >= 32768 THEN t - 65536 ELSE t        \* (t << 16) >> 16
  IN  s % 65536                                       \* stored as a Uint16

\* a plausible slip: the mask on the sign-propagating shift is forgotten
swap32_UnmaskedShift(val) ==
  Or32(Or32(Or32(Shl32(And32(val, {0}), 3), Shl32(And32(val, {1}), 1)),
            And32(Sar32(val, 1), {1})),
       Sar32(val, 3))

\* lines 242-246, on a Uint32Array element
swap32(val) ==
  Or32(Or32(Or32(Shl32(And32(val, {0}), 3), Shl32(And32(val, {1}), 1)),
            And32(Sar32(val, 1), {1})),
       And32(Sar32(val, 3), {0}))

\* element i (from 0) of a typed array of `width` bytes over raw, as the
\* tuple of its bytes, least significant first
ElemBytes(raw, width, i, platformLE) ==
  [k \in 0..(width - 1) |->
     IF platformLE THEN raw[i * width + k + 1] ELSE raw[i * width + width - k]]

\* the bytes of raw after element i is overwritten from its byte tuple
StoreBytes(width, bytes, k, platformLE) ==
  IF platformLE THEN bytes[k] ELSE bytes[width - 1 - k]

\* lines 230-247: every element of the Uint16Array / Uint32Array replaced
SwapElements(raw, width, platformLE) ==
  [p \in 1..Len(raw) |->
     LET i == (p - 1) \div width
         k == (p - 1) % width
         e == ElemBytes(raw, width, i, platformLE)
         swapped == IF width = 2
                      THEN LET v == swap16(e[0] + 256 * e[1])
                           IN  [q \in 0..1 |-> IF q = 0 THEN v % 256 ELSE v \div 256]
                      ELSE swap32(e)
     IN  StoreBytes(width, swapped, k, platformLE)]

\* lines 224-262: the bytes after the pass, or the exception it ends in
SwapBytes(hdr, imgRaw, platformLE) ==
  IF /\ hdr.datatypeCode # DT_RGB
     /\ hdr.datatypeCode # DT_RGBA32
     /\ hdr.littleEndian # platformLE
     /\ Gt(hdr.numBitsPerVoxel, 8)
  THEN
    IF hdr.numBitsPerVoxel = 16 THEN
      IF Len(imgRaw) % 2 # 0 THEN [err |-> "RangeError", raw |-> imgRaw]
      ELSE [err |-> "none", raw |-> SwapElements(imgRaw, 2, platformLE)]
    ELSE IF hdr.numBitsPerVoxel = 32 THEN
      IF Len(imgRaw) % 4 # 0 THEN [err |-> "RangeError", raw |-> imgRaw]
      ELSE [err |-> "none", raw |-> SwapElements(imgRaw, 4, platformLE)]
    ELSE IF hdr.numBitsPerVoxel = 64 THEN
      \* line 253 reads bytesPer, a name that is declared nowhere
      IF Len(imgRaw) > 0 THEN [err |-> "ReferenceError", raw |-> imgRaw]
      ELSE [err |-> "none", raw |-> imgRaw]
    ELSE [err |-> "none", raw |-> imgRaw]
  ELSE [err |-> "none", raw |-> imgRaw]

(***************************************************************************)
(* Typed arrays over imgRaw and the datatype switch, lines 263-321.  A     *)
(* typed array is a sequence: element i of the source is element i + 1     *)
(* here.  Floating-point elements are decoded through a table of bit       *)
(* patterns (most significant byte first).                                 *)
(***************************************************************************)
Float32Table ==
  { <<0, <<0, 0, 0, 0>> >>, <<1, <<63, 128, 0, 0>> >>, <<2, <<64, 0, 0, 0>> >>,
    <<0 - 1, <<191, 128, 0, 0>> >>, <<1000, <<68, 122, 0, 0>> >>,
    <<NaN, <<127, 192, 0, 0>> >> }

Float64Table ==
  { <<0, <<0, 0, 0, 0, 0, 0, 0, 0>> >>, <<1, <<63, 240, 0, 0, 0, 0, 0, 0>> >>,
    <<2, <<64, 0, 0, 0, 0, 0, 0, 0>> >>, <<0 - 1, <<191, 240, 0, 0, 0, 0, 0, 0>> >>,
    <<1000, <<64, 143, 64, 0, 0, 0, 0, 0>> >>,
    <<NaN, <<127, 248, 0, 0, 0, 0, 0, 0>> >> }

FloatValue(table, e, width) ==
  LET be == [k \in 1..width |-> e[width - k]]
  IN  (CHOOSE row \in table : row[2] = be)[1]

Pow256(k) == IF k = 0 THEN 1 ELSE IF k = 1 THEN 256 ELSE IF k = 2 THEN 65536 ELSE 16777216

RECURSIVE UnsignedValue(_, _)
UnsignedValue(e, width) ==
  IF width = 0 THEN 0
  ELSE UnsignedValue(e, width - 1) + e[width - 1] * Pow256(width - 1)

SignedValue(e, width) ==
  UnsignedValue(e, width - 1)
    + (IF e[width - 1] >= 128 THEN e[width - 1] - 256 ELSE e[width - 1]) * Pow256(width - 1)

\* a BigInt64Array element through Number(): the values of the model fit
\* 32 bits, the upper four bytes are the sign extension
Int64Value(e) ==
  LET low == SignedValue([k \in 0..3 |-> e[k]], 4)
      ext == IF e[3] >= 128 THEN 255 ELSE 0
  IN  (CHOOSE v \in {low} : \A k \in 4..7 : e[k] = ext)

ElementValue(kind, e) ==
  CASE kind = "Uint8"    -> e[0]
    [] kind = "Int8"     -> SignedValue(e, 1)
    [] kind = "Int16"    -> SignedValue(e, 2)
    [] kind = "Uint16"   -> UnsignedValue(e, 2)
    [] kind = "Int32"    -> SignedValue(e, 4)
    [] kind = "Uint32"   -> UnsignedValue(e, 4)
    [] kind = "BigInt64" -> Int64Value(e)
    [] kind = "Float32"  -> FloatValue(Float32Table, e, 4)
    [] OTHER             -> FloatValue(Float64Table, e, 8)

ElementWidth(kind) ==
  CASE kind \in {"Uint8", "Int8"} -> 1
    [] kind \in {"Int16", "Uint16"} -> 2
    [] kind \in {"Int32", "Uint32", "Float32"} -> 4
    [] OTHER -> 8

\* new XxxArray(imgRaw): a RangeError when the byte length is no multiple of
\* the element width
TypedArray(kind, raw, platformLE) ==
  LET w == ElementWidth(kind)
  IN  IF Len(raw) % w # 0 THEN [err |-> "RangeError", arr |-> <<>>]
      ELSE [err |-> "none",
            arr |-> [i \in 1..(Len(raw) \div w) |->
                       ElementValue(kind, ElemBytes(raw, w, i - 1, platformLE))]]

\* lines 286-318: a zero-filled array of the source's length, then
\* for (i = 0; i < length - 1; i++) img[i] = source[i]
Promote_CopyAll(src) == [i \in 1..Len(src) |-> IF i - 1 < Len(src) THEN src[i] ELSE 0]

Promote(src) == [i \in 1..Len(src) |-> IF i - 1 < Len(src) - 1 THEN src[i] ELSE 0]

\* lines 263-321
DecodeVoxels(hdr, raw, platformLE) ==
  LET dt == hdr.datatypeCode
      kind == CASE dt \in {DT_UNSIGNED_CHAR, DT_RGB, DT_RGBA32} -> "Uint8"
                [] dt = DT_SIGNED_SHORT -> "Int16"
                [] dt = DT_FLOAT -> "Float32"
                [] dt = DT_DOUBLE -> "Float64"
                [] dt = DT_UINT16 -> "Uint16"
                [] dt = DT_INT8 -> "Int8"
                [] dt = DT_UINT32 -> "Uint32"
                [] dt = DT_SIGNED_INT -> "Int32"
                [] dt = DT_INT64 -> "BigInt64"
                [] OTHER -> "none"
      promoted == dt \in {DT_INT8, DT_UINT32, DT_SIGNED_INT, DT_INT64}
      view == TypedArray(kind, raw, platformLE)
  IN  IF kind = "none"
        THEN [err |-> "datatype not supported", img |-> <<>>, datatypeCode |-> dt]
      ELSE IF view.err # "none"
        THEN [err |-> view.err, img |-> <<>>, datatypeCode |-> dt]
      ELSE IF promoted
        THEN [err |-> "none", img |-> Promote(view.arr),
              datatypeCode |-> IF dt = DT_INT8 THEN DT_SIGNED_SHORT ELSE DT_DOUBLE]
      ELSE [err |-> "none", img |-> view.arr, datatypeCode |-> dt]

(***************************************************************************)
(* calMinMax, lines 1130-1268, and intensityRaw2Scaled, lines 1271-1274.   *)
(* Voxel values, scl_slope and scl_inter are whole numbers.  The cut       *)
(* values lo / scl + mn are multiples of 1 / (nBins - 1), so every         *)
(* intensity (the six statistics, hdr.cal_min, hdr.cal_max, a colormap's   *)
(* min and max) is held multiplied by Milli = nBins - 1.  percentileFrac   *)
(* is held in percent.                                                     *)
(***************************************************************************)
nBins == 1001

Milli == nBins - 1

\* the colormap registry ./cmaps: the names and the range each declares
cmaps ==
  [cm \in {"gray", "ranged"} |->
     IF cm = "gray" THEN [min |-> 0, max |-> 0]
     ELSE [min |-> 20 * Milli, max |-> 80 * Milli]]

colorMaps == DOMAIN cmaps

toLowerCase(str) ==
  CASE str = "GRAY" -> "gray"
    [] str = "Ranged" -> "ranged"
    [] OTHER -> str

\* Math.round of p / q for q > 0
MathRound(p, q) == (2 * p + q) \div (2 * q)

SetMin(S) == CHOOSE x \in S : \A y \in S : x <= y

SetMax(S) == CHOOSE x \in S : \A y \in S : x >= y

\* lines 1271-1274, the raw value given in 1 / Milli: the header with a
\* zero slope replaced and the scaled value
intensityRaw2Scaled(hdr, raw) ==
  LET h == IF hdr.scl_slope = 0 THEN [hdr EXCEPT !.scl_slope = 1] ELSE hdr
  IN  [hdr |-> h, val |-> Add(Mul(raw, h.scl_slope), Mul(Milli, h.scl_inter))]

\* lines 1236-1250, the loop entered with lo = hi = b; occupied is the set of
\* bins with hist[bin] > 0.  Round k of the loop moves lo to b - k (while
\* lo > 0) and tests hist[lo], then moves hi to b + k (while hi < nBins - 1)
\* and tests hist[hi], then tests lo = 0 and hi = nBins - 1; the loop ends
\* in the first round in which one of the three tests succeeds.
Widen(occupied, b) ==
  LET under == {o \in occupied : o < b}
      over == {o \in occupied : o > b /\ o <= nBins - 1}
      kEnd == IF b > nBins - 1 - b THEN b ELSE nBins - 1 - b
      kLo == IF under = {} THEN kEnd + 1 ELSE b - SetMax(under)
      kHi == IF over = {} THEN kEnd + 1 ELSE SetMin(over) - b
      capHi(h) == IF h > nBins - 1 THEN nBins - 1 ELSE h
      capLo(l) == IF l < 0 THEN 0 ELSE l
  IN  IF kLo <= kHi /\ kLo <= kEnd THEN <<b - kLo, capHi(b + kLo - 1)>>
      ELSE IF kHi <= kEnd THEN <<capLo(b - kHi), b + kHi>>
      ELSE <<0, nBins - 1>>

\* a plausible slip: a round without the closing test lo == 0 && hi == nBins - 1
WidenRound_NoEndTest(occupied, s) ==
  LET lo == IF s.lo > 0 THEN s.lo - 1 ELSE s.lo
      ok1 == IF s.lo > 0 /\ lo \in occupied THEN 0 ELSE s.ok
      up == ok1 # 0 /\ s.hi < nBins - 1
      hi == IF up THEN s.hi + 1 ELSE s.hi
      ok2 == IF up /\ hi \in occupied THEN 0 ELSE ok1
  IN  [lo |-> lo, hi |-> hi, ok |-> ok2]

\* lines 1240-1249: one round of the loop while (ok !== 0), on the locals
\* lo, hi and ok
WidenRound(occupied, s) ==
  LET lo == IF s.lo > 0 THEN s.lo - 1 ELSE s.lo
      ok1 == IF s.lo > 0 /\ lo \in occupied THEN 0 ELSE s.ok
      up == ok1 # 0 /\ s.hi < nBins - 1
      hi == IF up THEN s.hi + 1 ELSE s.hi
      ok2 == IF up /\ hi \in occupied THEN 0 ELSE ok1
      ok3 == IF lo = 0 /\ hi = nBins - 1 THEN 0 ELSE ok2
  IN  [lo |-> lo, hi |-> hi, ok |-> ok3]

\* lines 1169-1186: the full range of the voxels.  Math.min and Math.max
\* start from img[0] and stay NaN once an operand is NaN
FullRange(img, ignoreZeroVoxels) ==
  LET nVox == Len(img)
      counted == {i \in 1..nVox : ~isNaN(img[i]) /\ ~(img[i] = 0 /\ ignoreZeroVoxels)}
      first == IF nVox = 0 THEN Undefined ELSE img[1]
      seen == {first} \cup {img[i] : i \in counted}
  IN  [nVox |-> nVox,
       nNan |-> Cardinality({i \in 1..nVox : isNaN(img[i])}),
       zeros |-> Cardinality({i \in 1..nVox : ~isNaN(img[i]) /\ img[i] = 0}),
       counted |-> counted,
       mn |-> IF isNaN(first) THEN first ELSE SetMin(seen),
       mx |-> IF isNaN(first) THEN first ELSE SetMax(seen)]

\* lines 1203-1235: hist[Math.round((img[i] - mn) * scl)]++ with
\* scl = (nBins - 1) / (mx - mn), a NaN index filling no bin; then, from each
\* end, the walk to the first bin at which the running count reaches n2pct.
\* The count changes in occupied bins only; past either end hist[] is
\* undefined, the count turns NaN and the walk stops one bin outside.
HistogramEnds(img, mn, mx, filled, n2pct) ==
  LET bin(i) == MathRound((img[i] - mn) * (nBins - 1), mx - mn)
      occupied == {bin(i) : i \in filled}
      reachedLo == {b \in occupied : Cardinality({i \in filled : bin(i) <= b}) >= n2pct}
      reachedHi == {b \in occupied : Cardinality({i \in filled : bin(i) >= b}) >= n2pct}
  IN  [occupied |-> occupied,
       lo |-> IF reachedLo = {} THEN nBins ELSE SetMin(reachedLo),
       hi |-> IF reachedHi = {} THEN 0 - 1 ELSE SetMax(reachedHi)]

\* lines 1236-1250: the cut bins <<lo, hi>> after the lo == hi test
Widened(ends) ==
  IF ends.lo = ends.hi THEN Widen(ends.occupied, ends.lo) ELSE <<ends.lo, ends.hi>>

\* lines 1236-1268: the cut widened when lo = hi, scaled, and overridden by
\* the header's own cal_min / cal_max when they lie within the full range
RobustRange(im, hdr, mn, mx, mnScale, mxScale, ends) ==
  LET rawAt(cut, k) == IF isNaN(mn) THEN NaN ELSE cut[k] * (mx - mn) + Milli * mn
      Scaled(cut) ==
        IF Lt(hdr.cal_min, hdr.cal_max) /\ Ge(hdr.cal_min, mnScale) /\ Le(hdr.cal_max, mxScale)
          THEN <<hdr.cal_min, hdr.cal_max>>
          ELSE <<intensityRaw2Scaled(hdr, rawAt(cut, 1)).val,
                 intensityRaw2Scaled(hdr, rawAt(cut, 2)).val>>
      Stored(pct) ==
        [im EXCEPT !.hdr = hdr,
                   !.cal_min = pct[1], !.cal_max = pct[2],
                   !.robust_min = pct[1], !.robust_max = pct[2],
                   !.global_min = mnScale, !.global_max = mxScale]
  IN  Stored(Scaled(Widened(ends)))

\* lines 1187-1202: the scaled full range, and the range itself when the
\* percentile holds no voxel or the image has one intensity
ScaledRange(im, hdr, r, n2pct) ==
  LET Ranged(mnScale, mxScale) ==
        IF n2pct < 1 \/ StrictEq(r.mn, r.mx)
          THEN [im EXCEPT !.hdr = hdr,
                          !.cal_min = mnScale, !.cal_max = mxScale,
                          !.robust_min = mnScale, !.robust_max = mxScale,
                          !.global_min = mnScale, !.global_max = mxScale]
          ELSE RobustRange(im, hdr, r.mn, r.mx, mnScale, mxScale,
                           HistogramEnds(im.img, r.mn, r.mx,
                                         IF isNaN(r.mn) THEN {} ELSE r.counted, n2pct))
  IN  Ranged(intensityRaw2Scaled(hdr, Mul(Milli, r.mn)).val,
             intensityRaw2Scaled(hdr, Mul(Milli, r.mx)).val)

\* lines 1188-1190: n2pct, percentileFrac held in percent
Percentile(im, r) ==
  MathRound((r.nVox - ((IF im.ignoreZeroVoxels THEN r.zeros ELSE 0) + r.nNan))
              * im.percentileFrac, 100)

\* lines 1168-1268: the range computed from the voxel data; the first call of
\* intensityRaw2Scaled stores a slope of 1 over a slope of 0
DataRange(im) ==
  LET Counted(r) ==
        ScaledRange(im, intensityRaw2Scaled(im.hdr, 0).hdr, r, Percentile(im, r))
  IN  Counted(FullRange(im.img, im.ignoreZeroVoxels))

\* a plausible slip: the header's range is tried first whatever the colormap
\* declares
RangeRule_HeaderFirst(im) ==
  LET cm == toLowerCase(im.colorMap)
      known == cm \in colorMaps
      cmMin == IF known THEN cmaps[cm].min ELSE 0
      cmMax == IF known THEN cmaps[cm].max ELSE 0
  IN  IF /\ im.trustCalMinMax
         /\ ~isNaN(im.hdr.cal_min)
         /\ ~isNaN(im.hdr.cal_max)
         /\ Gt(im.hdr.cal_max, im.hdr.cal_min)
      THEN "header"
      ELSE IF cmMin # cmMax THEN "colormap"
      ELSE "data"

\* lines 1131-1147 and 1161: which of the three ranges calMinMax stores.
\* isFinite is modelled by ~isNaN, the model holds no infinite number
RangeRule(im) ==
  LET cm == toLowerCase(im.colorMap)
      known == cm \in colorMaps
      cmMin == IF known THEN cmaps[cm].min ELSE 0
      cmMax == IF known THEN cmaps[cm].max ELSE 0
  IN  IF /\ StrictEq(cmMin, cmMax)
         /\ im.trustCalMinMax
         /\ ~isNaN(im.hdr.cal_min)
         /\ ~isNaN(im.hdr.cal_max)
         /\ Gt(im.hdr.cal_max, im.hdr.cal_min)
      THEN "header"
      ELSE IF cmMin # cmMax THEN "colormap"
      ELSE "data"

\* lines 1130-1167, then the data path
calMinMax(im) ==
  LET Stored(rule) ==
        CASE rule = "header" ->
               [im EXCEPT !.cal_min = im.hdr.cal_min, !.cal_max = im.hdr.cal_max,
                          !.robust_min = im.hdr.cal_min, !.robust_max = im.hdr.cal_max,
                          !.global_min = im.hdr.cal_min, !.global_max = im.hdr.cal_max]
          [] rule = "colormap" ->
               [im EXCEPT !.cal_min = cmaps[toLowerCase(im.colorMap)].min,
                          !.cal_max = cmaps[toLowerCase(im.colorMap)].max,
                          !.robust_min = cmaps[toLowerCase(im.colorMap)].min,
                          !.robust_max = cmaps[toLowerCase(im.colorMap)].max]
          [] OTHER -> DataRange(im)
  IN  Stored(RangeRule(im))

\* lines 1203-1250: the local variables lo and hi of the data path, before
\* and after the lo == hi test; histogram is FALSE when calMinMax returns
\* before it builds the histogram
HistogramCuts(im) ==
  LET None == [histogram |-> FALSE, before |-> <<>>, after |-> <<>>]
      Cut(ends) == [histogram |-> TRUE, before |-> <<ends.lo, ends.hi>>,
                    after |-> Widened(ends)]
      Walked(r, n2pct) ==
        IF n2pct < 1 \/ StrictEq(r.mn, r.mx) THEN None
        ELSE Cut(HistogramEnds(im.img, r.mn, r.mx,
                               IF isNaN(r.mn) THEN {} ELSE r.counted, n2pct))
      Counted(r) == Walked(r, Percentile(im, r))
  IN  IF RangeRule(im) # "data" THEN None
      ELSE Counted(FullRange(im.img, im.ignoreZeroVoxels))

(***************************************************************************)
(* The NVImage constructor, lines 41-324.  A name is the sequence of its   *)
(* characters.  `decoded` is what the decoder selected by the extension    *)
(* made of dataBuffer: the header and the voxel bytes imgRaw.  The         *)
(* display-only fields opacity, visible and frame4D are left out.          *)
(***************************************************************************)
\* lines 89-90: the text after the last dot; <<>> stands for undefined (no
\* dot, or nothing after the last dot)
Ext(name) ==
  LET dots == {i \in 1..Len(name) : name[i] = "."}
  IN  IF dots = {} \/ SetMax(dots) = Len(name) THEN <<>>
      ELSE SubSeq(name, SetMax(dots) + 1, Len(name))

\* line 91: String.prototype.toUpperCase on a sequence of characters
LowerCase ==
  <<"a", "b", "c", "d", "e", "f", "g", "h", "i", "j", "k", "l", "m",
    "n", "o", "p", "q", "r", "s", "t", "u", "v", "w", "x", "y", "z">>

UpperCase ==
  <<"A", "B", "C", "D", "E", "F", "G", "H", "I", "J", "K", "L", "M",
    "N", "O", "P", "Q", "R", "S", "T", "U", "V", "W", "X", "Y", "Z">>

toUpperCase(str) ==
  [i \in 1..Len(str) |->
     IF \E k \in 1..Len(LowerCase) : LowerCase[k] = str[i]
       THEN UpperCase[CHOOSE k \in 1..Len(LowerCase) : LowerCase[k] = str[i]]
       ELSE str[i]]

\* lines 89-107: the decoder the constructor hands dataBuffer to.  Without
\* an extension ext is undefined and line 91 throws before any decoder runs
SelectDecoder(name) ==
  LET Chosen(ext) ==
        IF ext \in {<<"N", "H", "D", "R">>, <<"N", "R", "R", "D">>} THEN "readNRRD"
        ELSE IF ext \in {<<"M", "G", "H">>, <<"M", "G", "Z">>} THEN "readMGH"
        ELSE IF ext = <<"H", "E", "A", "D">> THEN "readHEAD"
        ELSE "nifti.readHeader"
  IN  IF Ext(name) = <<>> THEN [err |-> "TypeError", decoder |-> "none"]
      ELSE [err |-> "none", decoder |-> Chosen(toUpperCase(Ext(name)))]

\* lines 75-83, and all an NVImage is when no dataBuffer is given (line 86)
BareImage(id, name, colorMap, trustCalMinMax, percentileFrac, ignoreZeroVoxels) ==
  [id |-> id, name |-> name, colorMap |-> colorMap,
   percentileFrac |-> percentileFrac, ignoreZeroVoxels |-> ignoreZeroVoxels,
   trustCalMinMax |-> trustCalMinMax,
   hasHdr |-> FALSE, hdr |-> <<>>, hasImg |-> FALSE, img |-> <<>>,
   nFrame4D |-> Undefined, nVox3D |-> Undefined, mismatchLogged |-> FALSE,
   hasRAS |-> FALSE, ixyz |-> <<>>, perm |-> <<>>, flip |-> <<>>,
   dimsRAS |-> <<>>, pixDimsRAS |-> <<>>,
   cal_min |-> Undefined, cal_max |-> Undefined,
   robust_min |-> Undefined, robust_max |-> Undefined,
   global_min |-> Undefined, global_max |-> Undefined]

\* lines 108-118
CountVoxels(im, hdr, byteLength) ==
  LET frames == {i \in 4..6 : Gt(hdr.dims[i], 1)}
      f(i) == IF i \in frames THEN hdr.dims[i] ELSE 1
      nFrame4D == f(4) * f(5) * f(6)
      nVox3D == Mul(Mul(hdr.dims[1], hdr.dims[2]), hdr.dims[3])
      \* nVol4D = byteLength / nVox3D / (numBitsPerVoxel / 8) differs from nFrame4D
      differs == \/ isNaN(nVox3D)
                 \/ nVox3D = 0
                 \/ hdr.numBitsPerVoxel = 0
                 \/ byteLength * 8 # nFrame4D * nVox3D * hdr.numBitsPerVoxel
  IN  [im EXCEPT !.nFrame4D = nFrame4D, !.nVox3D = nVox3D, !.mismatchLogged = differs]

\* calculateRAS as a method: lines 933-1038
WithRAS(im) ==
  LET at(arr, k) == IF k \in DOMAIN arr THEN arr[k] ELSE Undefined
      Oriented(r) ==
        [im EXCEPT !.hasRAS = TRUE, !.ixyz = r.ixyz, !.perm = r.perm, !.flip = r.flip,
                   !.dimsRAS = <<im.hdr.dims[0], at(im.hdr.dims, r.perm[0]),
                                 at(im.hdr.dims, r.perm[1]), at(im.hdr.dims, r.perm[2])>>,
                   !.pixDimsRAS = <<im.hdr.pixDims[0], at(im.hdr.pixDims, r.perm[0]),
                                    at(im.hdr.pixDims, r.perm[1]), at(im.hdr.pixDims, r.perm[2])>>]
  IN  Oriented(calculateRAS(im.hdr.affine))

Thrown(err, im, resolved) ==
  [err |-> err, image |-> im, resolved |-> resolved]

\* lines 263-323: the typed view of the voxels, then calculateRAS and calMinMax
Decoded(im, resolved, dec) ==
  IF dec.err # "none" THEN Thrown(dec.err, im, resolved)
  ELSE [err |-> "none",
        image |-> calMinMax(WithRAS([im EXCEPT !.hasImg = TRUE, !.img = dec.img,
                                               !.hdr.datatypeCode = dec.datatypeCode])),
        resolved |-> resolved]

\* lines 224-262: the byte-swap pass
Swapped(im, resolved, swapped, platformLE) ==
  IF swapped.err # "none" THEN Thrown(swapped.err, im, resolved)
  ELSE Decoded(im, resolved, DecodeVoxels(im.hdr, swapped.raw, platformLE))

\* lines 203-262; hdr is the header with the affine resolved from SForm / QForm
Resolved(im, hdr, imgRaw, platformLE) ==
  LET Repaired(im3) ==
        Swapped(im3, hdr.affine, SwapBytes(im3.hdr, imgRaw, platformLE), platformLE)
  IN  Repaired([im EXCEPT !.hasHdr = TRUE, !.hdr = RepairAffine(hdr)])

NVImage(id, decoded, name, colorMap, trustCalMinMax, percentileFrac, ignoreZeroVoxels, useQFormNotSForm, platformLE) ==
  IF Ext(name) = <<>>                                \* line 91: undefined.toUpperCase()
    THEN Thrown("TypeError",
                BareImage(id, name, colorMap, trustCalMinMax, percentileFrac,
                          ignoreZeroVoxels),
                <<>>)
    ELSE Resolved(CountVoxels(BareImage(id, name, colorMap, trustCalMinMax, percentileFrac,
                                        ignoreZeroVoxels),
                              decoded.hdr, Len(decoded.imgRaw)),
                  SelectQForm(RepairScaling(decoded.hdr), useQFormNotSForm),
                  decoded.imgRaw, platformLE)

(***************************************************************************)
(* readNRRD, lines 674-930.  The file is its first line (magic), the       *)
(* key / value lines that follow, whether a blank line ends the header,    *)
(* and the bytes stored after it.  A value is the sequence of characters   *)
(* between the first and the second colon of its line.  Numbers in the     *)
(* values are integers.  hasAlert tells whether the environment defines    *)
(* the global function alert (a browser does, Node does not).              *)
(***************************************************************************)
\* line 705: str.toLowerCase()
LowerCased(str) ==
  [i \in 1..Len(str) |->
     IF \E k \in 1..Len(UpperCase) : UpperCase[k] = str[i]
       THEN LowerCase[CHOOSE k \in 1..Len(UpperCase) : UpperCase[k] = str[i]]
       ELSE str[i]]

\* String.prototype.includes
Includes(str, needle) ==
  \E i \in 1..(Len(str) - Len(needle) + 1) : SubSeq(str, i, i + Len(needle) - 1) = needle

\* String.prototype.startsWith
StartsWith(str, prefix) ==
  Len(str) >= Len(prefix) /\ SubSeq(str, 1, Len(prefix)) = prefix

\* String.prototype.trim, for blanks
Trim(str) ==
  LET inked == {i \in 1..Len(str) : str[i] # " "}
  IN  IF inked = {} THEN <<>> ELSE SubSeq(str, SetMin(inked), SetMax(inked))

\* lines 705-712: the value of a line as the switch sees it
NRRDValue(text) ==
  LET Unparenthesised(str) ==
        [i \in 1..Len(str) |-> IF str[i] \in {"(", ")"} THEN " " ELSE str[i]]
  IN  Trim(Unparenthesised(Trim(LowerCased(text))))

\* value.split(/[ ,]+/): the words between runs of blanks and commas, with
\* an empty word before a leading run and after a trailing run
Split(str) ==
  LET n == Len(str)
      isSep(i) == str[i] \in {" ", ","}
      starts == {i \in 1..n : ~isSep(i) /\ (i = 1 \/ isSep(i - 1))}
      endOf(s) == SetMin({j \in s..n : j = n \/ isSep(j + 1)})
      startAt(k) == CHOOSE s \in starts : Cardinality({y \in starts : y < s}) = k - 1
      words == [k \in 1..Cardinality(starts) |-> SubSeq(str, startAt(k), endOf(startAt(k)))]
  IN  IF n = 0 THEN << <<>> >>
      ELSE (IF isSep(1) THEN << <<>> >> ELSE <<>>) \o words
             \o (IF isSep(n) THEN << <<>> >> ELSE <<>>)

Digits == <<"0", "1", "2", "3", "4", "5", "6", "7", "8", "9">>

RECURSIVE Horner(_, _, _)
Horner(word, first, last) ==
  IF last < first THEN 0
  ELSE 10 * Horner(word, first, last - 1)
         + ((CHOOSE k \in 1..Len(Digits) : Digits[k] = word[last]) - 1)

\* an optional sign and the longest run of digits after it; NaN without a
\* digit there
ParseNumber(word) ==
  LET first == IF Len(word) > 0 /\ word[1] \in {"-", "+"} THEN 2 ELSE 1
      others == {i \in first..Len(word) : \A k \in 1..Len(Digits) : Digits[k] # word[i]}
      last == IF others = {} THEN Len(word) ELSE SetMin(others) - 1
  IN  IF last < first THEN NaN
      ELSE IF word[1] = "-" THEN 0 - Horner(word, first, last)
      ELSE Horner(word, first, last)

parseInt(word) == ParseNumber(word)

\* the words of the model hold no fraction and no exponent
parseFloat(word) == ParseNumber(word)

\* new nifti.NIFTI1() of line 678 with the pixDims of line 680: dims is an
\* empty array, the affine is the identity
NIFTI1 ==
  [dims |-> [k \in 0..7 |-> Undefined],
   pixDims |-> [k \in 0..7 |-> IF k < 5 THEN 1 ELSE 0],
   affine |-> Diag(1, 1, 1),
   quatern_b |-> 0, quatern_c |-> 0, quatern_d |-> 0,
   qoffset_x |-> 0, qoffset_y |-> 0, qoffset_z |-> 0,
   qform_code |-> 0, sform_code |-> 0,
   datatypeCode |-> 0, numBitsPerVoxel |-> 0, littleEndian |-> FALSE,
   scl_slope |-> 1, scl_inter |-> 0, cal_min |-> 0, cal_max |-> 0]

\* lines 723-775: the spellings of "type" and their datatype code
NRRDTypes ==
  {
    <<<<"u", "c", "h", "a", "r">>, DT_UNSIGNED_CHAR>>,
    <<<<"u", "n", "s", "i", "g", "n", "e", "d", " ", "c", "h", "a", "r">>, DT_UNSIGNED_CHAR>>,
    <<<<"u", "i", "n", "t", "8">>, DT_UNSIGNED_CHAR>>,
    <<<<"u", "i", "n", "t", "8", "_", "t">>, DT_UNSIGNED_CHAR>>,
    <<<<"s", "i", "g", "n", "e", "d", " ", "c", "h", "a", "r">>, DT_INT8>>,
    <<<<"i", "n", "t", "8">>, DT_INT8>>,
    <<<<"i", "n", "t", "8", "_", "t">>, DT_INT8>>,
    <<<<"s", "h", "o", "r", "t">>, DT_SIGNED_SHORT>>,
    <<<<"s", "h", "o", "r", "t", " ", "i", "n", "t">>, DT_SIGNED_SHORT>>,
    <<<<"s", "i", "g", "n", "e", "d", " ", "s", "h", "o", "r", "t">>, DT_SIGNED_SHORT>>,
    <<<<"s", "i", "g", "n", "e", "d", " ", "s", "h", "o", "r", "t", " ", "i", "n", "t">>, DT_SIGNED_SHORT>>,
    <<<<"i", "n", "t", "1", "6">>, DT_SIGNED_SHORT>>,
    <<<<"i", "n", "t", "1", "6", "_", "t">>, DT_SIGNED_SHORT>>,
    <<<<"u", "s", "h", "o", "r", "t">>, DT_UINT16>>,
    <<<<"u", "n", "s", "i", "g", "n", "e", "d", " ", "s", "h", "o", "r", "t">>, DT_UINT16>>,
    <<<<"u", "n", "s", "i", "g", "n", "e", "d", " ", "s", "h", "o", "r", "t", " ", "i", "n", "t">>, DT_UINT16>>,
    <<<<"u", "i", "n", "t", "1", "6">>, DT_UINT16>>,
    <<<<"u", "i", "n", "t", "1", "6", "_", "t">>, DT_UINT16>>,
    <<<<"i", "n", "t">>, DT_SIGNED_INT>>,
    <<<<"s", "i", "g", "n", "e", "d", " ", "i", "n", "t">>, DT_SIGNED_INT>>,
    <<<<"i", "n", "t", "3", "2">>, DT_SIGNED_INT>>,
    <<<<"i", "n", "t", "3", "2", "_", "t">>, DT_SIGNED_INT>>,
    <<<<"u", "i", "n", "t">>, DT_UINT32>>,
    <<<<"u", "n", "s", "i", "g", "n", "e", "d", " ", "i", "n", "t">>, DT_UINT32>>,
    <<<<"u", "i", "n", "t", "3", "2">>, DT_UINT32>>,
    <<<<"u", "i", "n", "t", "3", "2", "_", "t">>, DT_UINT32>>,
    <<<<"f", "l", "o", "a", "t">>, DT_FLOAT>>,
    <<<<"d", "o", "u", "b", "l", "e">>, DT_DOUBLE>>
  }

\* lines 722-779
NRRDType(st, value) ==
  LET Typed(code) ==
        [st EXCEPT !.hdr.datatypeCode = code,
                   !.hdr.numBitsPerVoxel =
                      IF code \in {DT_UNSIGNED_CHAR, DT_INT8} THEN 8
                      ELSE IF code \in {DT_SIGNED_SHORT, DT_UINT16} THEN 16
                      ELSE IF code = DT_DOUBLE THEN 64 ELSE 32]
  IN  IF \E t \in NRRDTypes : t[1] = value
        THEN Typed((CHOOSE t \in NRRDTypes : t[1] = value)[2])
        ELSE [st EXCEPT !.err = "Unsupported NRRD data type"]

\* lines 784-789
NRRDSizes(st, dims) ==
  [st EXCEPT !.hdr.dims =
     [k \in 0..7 |-> IF k = 0 THEN Len(dims)
                     ELSE IF k <= Len(dims) THEN parseInt(dims[k])
                     ELSE @[k]]]

\* lines 794-798
NRRDDirections(st, vs) ==
  IF Len(vs) # 9 THEN st
  ELSE [st EXCEPT !.mat33 = [d \in 0..8 |-> parseFloat(vs[d + 1])]]

\* lines 799-805
NRRDOrigin(st, ts) ==
  IF Len(ts) # 3 THEN st
  ELSE [st EXCEPT !.offset = [d \in 0..2 |-> parseFloat(ts[d + 1])]]

\* lines 809-859: value is in lower case when the capital short forms are
\* looked for
NRRDSpace(st, value) ==
  LET Rot(x, y) == [d \in 0..8 |-> IF d = 0 THEN x ELSE IF d = 4 THEN y
                                   ELSE IF d = 8 THEN 1 ELSE 0]
  IN  IF \/ Includes(value, <<"r", "i", "g", "h", "t", "-", "a", "n", "t", "e", "r", "i", "o", "r", "-", "s", "u", "p", "e", "r", "i", "o", "r">>)
         \/ Includes(value, <<"R", "A", "S">>)
        THEN [st EXCEPT !.rot33 = Rot(1, 1)]
      ELSE IF \/ Includes(value, <<"l", "e", "f", "t", "-", "a", "n", "t", "e", "r", "i", "o", "r", "-", "s", "u", "p", "e", "r", "i", "o", "r">>)
              \/ Includes(value, <<"L", "A", "S">>)
        THEN [st EXCEPT !.rot33 = Rot(0 - 1, 1)]
      ELSE IF \/ Includes(value, <<"l", "e", "f", "t", "-", "p", "o", "s", "t", "e", "r", "i", "o", "r", "-", "s", "u", "p", "e", "r", "i", "o", "r">>)
              \/ Includes(value, <<"L", "P", "S">>)
        THEN [st EXCEPT !.rot33 = Rot(0 - 1, 0 - 1)]
      ELSE st

\* lines 713-862: one line of the header.  alert returns where it is
\* defined and is a ReferenceError where it is not.  In the "spacings" case
\* dims is read before the let of the "sizes" case has run
NRRDLine(st, key, value, hasAlert) ==
  CASE key = "data file" -> [st EXCEPT !.isDetached = TRUE]
    [] key = "encoding" ->
         IF Includes(value, <<"r", "a", "w">>) THEN [st EXCEPT !.isGz = FALSE]
         ELSE IF Includes(value, <<"g", "z">>) THEN [st EXCEPT !.isGz = TRUE]
         ELSE IF hasAlert THEN st
         ELSE [st EXCEPT !.err = "ReferenceError"]
    [] key = "type" -> NRRDType(st, value)
    [] key = "spacings" -> [st EXCEPT !.err = "ReferenceError"]
    [] key = "sizes" -> NRRDSizes(st, Split(value))
    [] key = "endian" ->
         IF Includes(value, <<"l", "i", "t", "t", "l", "e">>) THEN [st EXCEPT !.hdr.littleEndian = TRUE]
         ELSE IF Includes(value, <<"b", "i", "g">>) THEN [st EXCEPT !.hdr.littleEndian = FALSE]
         ELSE st
    [] key = "space directions" -> NRRDDirections(st, Split(value))
    [] key = "space origin" -> NRRDOrigin(st, Split(value))
    [] key = "space units" ->
         IF Includes(value, <<"m", "i", "c", "r", "o", "n", "s">>) THEN [st EXCEPT !.isMicron = TRUE] ELSE st
    [] key = "space" -> NRRDSpace(st, value)
    [] OTHER -> st

\* lines 701-863: the lines in order, up to the first that throws
RECURSIVE NRRDLines(_, _, _, _)
NRRDLines(st, lines, k, hasAlert) ==
  IF k > Len(lines) \/ st.err # "none" THEN st
  ELSE NRRDLines(NRRDLine(st, lines[k].key, NRRDValue(lines[k].value), hasAlert),
                 lines, k + 1, hasAlert)

\* a plausible slip: the transform is built whether or not "space
\* directions" gave mat33[0]
NRRDTransform_Always(st) ==
  LET mm(x) == IF isNaN(x) THEN NaN ELSE IF st.isMicron THEN x \div 1000 ELSE x
      neg(x) == IF isNaN(x) THEN NaN ELSE 0 - x
      b == [d \in 0..8 |-> mm(st.mat33[d])]
      a == st.rot33
      offset == [d \in 0..2 |-> IF a[4 * d] < 0 THEN neg(mm(st.offset[d]))
                           ELSE mm(st.offset[d])]
      \* mat3.multiply(mat33, rot33, mat33)
      m == [d \in 0..8 |->
              Add(Add(Mul(b[3 * (d \div 3)], a[d % 3]),
                      Mul(b[3 * (d \div 3) + 1], a[3 + (d % 3)])),
                  Mul(b[3 * (d \div 3) + 2], a[6 + (d % 3)]))]
      len(x, y, z) == MathSqrt(Add(Add(Mul(x, x), Mul(y, y)), Mul(z, z)))
  IN  [st.hdr EXCEPT
         !.sform_code = 2,
         !.pixDims = [@ EXCEPT ![1] = len(m[0], m[1], m[2]),
                               ![2] = len(m[3], m[4], m[5]),
                               ![3] = len(m[6], m[7], m[8])],
         !.affine = [i \in 0..3 |-> [j \in 0..3 |->
                       IF i = 3 THEN (IF j = 3 THEN 1 ELSE 0)
                       ELSE IF j = 3 THEN offset[i]
                       ELSE m[3 * j + i]]]]

\* lines 864-912: the transform, when "space directions" gave mat33[0].
\* Microns become mm by a division that is exact for the multiples of 1000
\* the model holds
NRRDTransform(st) ==
  LET mm(x) == IF isNaN(x) THEN NaN ELSE IF st.isMicron THEN x \div 1000 ELSE x
      neg(x) == IF isNaN(x) THEN NaN ELSE 0 - x
      b == [d \in 0..8 |-> mm(st.mat33[d])]
      a == st.rot33
      offset == [d \in 0..2 |-> IF a[4 * d] < 0 THEN neg(mm(st.offset[d]))
                                ELSE mm(st.offset[d])]
      \* mat3.multiply(mat33, rot33, mat33)
      m == [d \in 0..8 |->
              Add(Add(Mul(b[3 * (d \div 3)], a[d % 3]),
                      Mul(b[3 * (d \div 3) + 1], a[3 + (d % 3)])),
                  Mul(b[3 * (d \div 3) + 2], a[6 + (d % 3)]))]
      len(x, y, z) == MathSqrt(Add(Add(Mul(x, x), Mul(y, y)), Mul(z, z)))
  IN  IF isNaN(st.mat33[0]) THEN st.hdr
      ELSE [st.hdr EXCEPT
              !.sform_code = 2,
              !.pixDims = [@ EXCEPT ![1] = len(m[0], m[1], m[2]),
                                    ![2] = len(m[3], m[4], m[5]),
                                    ![3] = len(m[6], m[7], m[8])],
              !.affine = [i \in 0..3 |-> [j \in 0..3 |->
                            IF i = 3 THEN (IF j = 3 THEN 1 ELSE 0)
                            ELSE IF j = 3 THEN offset[i]
                            ELSE m[3 * j + i]]]]

\* lines 914-929: the voxel bytes.  pako.inflate throws on bytes that are
\* not a gzip stream
NRRDData(st, nrrd, paired) ==
  IF st.err # "none" THEN [err |-> st.err, hdr |-> st.hdr, imgRaw |-> <<>>]
  ELSE IF st.isDetached /\ paired.given
    THEN [err |-> "none", hdr |-> NRRDTransform(st), imgRaw |-> paired.bytes]
  ELSE IF st.isGz /\ ~nrrd.gzipped
    THEN [err |-> "incorrect header check", hdr |-> NRRDTransform(st), imgRaw |-> <<>>]
  ELSE [err |-> "none", hdr |-> NRRDTransform(st),
        imgRaw |-> IF st.isGz THEN nrrd.inflated ELSE nrrd.stored]

readNRRD(nrrd, paired, hasAlert) ==
  LET start == [err |-> "none", hdr |-> NIFTI1, isGz |-> FALSE, isMicron |-> FALSE,
                isDetached |-> FALSE,
                mat33 |-> [d \in 0..8 |-> IF d = 0 THEN NaN ELSE IF d \in {4, 8} THEN 1 ELSE 0],
                offset |-> [d \in 0..2 |-> 0],
                rot33 |-> [d \in 0..8 |-> IF d \in {0, 4, 8} THEN 1 ELSE 0]]
  IN  IF ~nrrd.terminated                          \* line 693: null.split
        THEN [err |-> "TypeError", hdr |-> NIFTI1, imgRaw |-> <<>>]
      ELSE IF ~StartsWith(nrrd.magic, <<"N", "R", "R", "D">>) /\ ~hasAlert
        THEN [err |-> "ReferenceError", hdr |-> NIFTI1, imgRaw |-> <<>>]
      ELSE NRRDData(NRRDLines(start, nrrd.lines, 1, hasAlert), nrrd, paired)

(***************************************************************************)
(* readHEAD, lines 555-672.  The header is the sequence of its attributes: *)
(* the text of the type line, the name, the count, and the words of the    *)
(* value lines.  The binary data is the paired buffer.                     *)
(***************************************************************************)
\* lines 587-598: the words of a numeric attribute become numbers, up to
\* count of them
HEADItems(attr) ==
  LET numeric == \/ Includes(attr.type, <<"i", "n", "t", "e", "g", "e", "r", "-", "a", "t", "t", "r", "i", "b", "u", "t", "e">>)
                 \/ Includes(attr.type, <<"f", "l", "o", "a", "t", "-", "a", "t", "t", "r", "i", "b", "u", "t", "e">>)
  IN  [j \in 1..Len(attr.words) |->
         IF numeric /\ j <= attr.count THEN parseFloat(attr.words[j]) ELSE attr.words[j]]

\* lines 604-614; datatype is parseInt(items[0]), the number parseFloat made
\* of the first word of this integer attribute
HEADBrickTypes(st, count, datatype) ==
  IF StrictEq(datatype, 0)
    THEN [st EXCEPT !.hdr.dims[4] = count, !.hdr.numBitsPerVoxel = 8,
                    !.hdr.datatypeCode = DT_UNSIGNED_CHAR]
  ELSE IF StrictEq(datatype, 1)
    THEN [st EXCEPT !.hdr.dims[4] = count, !.hdr.numBitsPerVoxel = 16,
                    !.hdr.datatypeCode = DT_SIGNED_SHORT]
  ELSE [st EXCEPT !.hdr.dims[4] = count]

\* lines 616-627: DICOM space is LPS, the first two rows are negated
HEADIjkToDicomReal(st, count, items) ==
  IF count < 12 THEN st
  ELSE [st EXCEPT !.hasIJK_TO_DICOM_REAL = TRUE,
                  !.hdr.sform_code = 2,
                  !.hdr.affine = [i \in 0..3 |-> [j \in 0..3 |->
                     IF i = 3 THEN (IF j = 3 THEN 1 ELSE 0)
                     ELSE IF i = 2 THEN items[4 * i + j + 1]
                     ELSE Sub(0, items[4 * i + j + 1])]]]

\* lines 628-631
HEADDimensions(st, count, items) ==
  [st EXCEPT !.hdr.dims =
     [k \in 0..7 |-> IF k \in 1..(IF count > 3 THEN count ELSE 3)
                       THEN (IF k <= Len(items) THEN items[k] ELSE Undefined)
                     ELSE @[k]]]

\* lines 583-645: one attribute
HEADAttribute(st, key, count, items) ==
  IF count < 1 THEN st
  ELSE CASE key = "BYTEORDER_STRING" ->
              IF Includes(items[1], <<"L", "S", "B", "_", "F", "I", "R", "S", "T">>) THEN [st EXCEPT !.hdr.littleEndian = TRUE]
              ELSE IF Includes(items[1], <<"M", "S", "B", "_", "F", "I", "R", "S", "T">>) THEN [st EXCEPT !.hdr.littleEndian = FALSE]
              ELSE st
         [] key = "BRICK_TYPES" -> HEADBrickTypes(st, count, items[1])
         [] key = "IJK_TO_DICOM_REAL" -> HEADIjkToDicomReal(st, count, items)
         [] key = "DATASET_DIMENSIONS" -> HEADDimensions(st, count, items)
         [] key = "ORIENT_SPECIFIC" -> [st EXCEPT !.orientSpecific = items]
         [] key = "ORIGIN" -> [st EXCEPT !.xyzOrigin = items]
         [] key = "DELTA" -> [st EXCEPT !.xyzDelta = items]
         [] key = "TAXIS_FLOATS" -> [st EXCEPT !.hdr.pixDims[4] = items[1]]
         [] OTHER -> st

\* lines 569-646
RECURSIVE HEADAttributes(_, _, _)
HEADAttributes(st, attrs, k) ==
  IF k > Len(attrs) THEN st
  ELSE HEADAttributes(HEADAttribute(st, attrs[k].name, attrs[k].count, HEADItems(attrs[k])),
                      attrs, k + 1)

\* lines 361-406.  ORIENT_xyz = "xxyyzzg"; a code outside the string gives
\* undefined, which the loop counts as z like "g"; the last axis given a
\* letter holds that letter's number.  The matrix starts as the identity
THD_daxes_to_NIFTI(hdr, xyzDelta, xyzOrigin, orientSpecific) ==
  LET at(arr, k) == IF k + 1 \in DOMAIN arr THEN arr[k + 1] ELSE Undefined
      axcode(k) == IF at(orientSpecific, k) \in {0, 1} THEN "x"
                   ELSE IF at(orientSpecific, k) \in {2, 3} THEN "y"
                   ELSE IF at(orientSpecific, k) \in {4, 5} THEN "z"
                   ELSE "g"
      last(S) == IF S = {} THEN 0 - 1 ELSE SetMax(S)
      nif_x_axnum == last({ii \in 0..2 : axcode(ii) = "x"})
      nif_y_axnum == last({ii \in 0..2 : axcode(ii) = "y"})
      nif_z_axnum == last({ii \in 0..2 : axcode(ii) \notin {"x", "y"}})
      neg(v) == IF isNaN(v) THEN NaN ELSE 0 - v
  IN  IF nif_x_axnum < 0 \/ nif_y_axnum < 0 \/ nif_z_axnum < 0
        THEN [hdr EXCEPT !.sform_code = 2]
      ELSE [hdr EXCEPT
              !.sform_code = 2,
              !.pixDims = [@ EXCEPT ![1] = MathAbs(at(xyzDelta, 0)),
                                    ![2] = MathAbs(at(xyzDelta, 1)),
                                    ![3] = MathAbs(at(xyzDelta, 2))],
              !.affine = [i \in 0..3 |-> [j \in 0..3 |->
                 IF i = 0 /\ j = nif_x_axnum THEN neg(at(xyzDelta, nif_x_axnum))
                 ELSE IF i = 1 /\ j = nif_y_axnum THEN neg(at(xyzDelta, nif_y_axnum))
                 ELSE IF i = 2 /\ j = nif_z_axnum THEN at(xyzDelta, nif_z_axnum)
                 ELSE IF i = 0 /\ j = 3 THEN neg(at(xyzOrigin, nif_x_axnum))
                 ELSE IF i = 1 /\ j = 3 THEN neg(at(xyzOrigin, nif_y_axnum))
                 ELSE IF i = 2 /\ j = 3 THEN at(xyzOrigin, nif_z_axnum)
                 ELSE IF i = j THEN 1 ELSE 0]]]

\* lines 408-438: the spacings are the lengths of the columns of the affine
SetPixDimFromSForm(hdr) ==
  LET m == hdr.affine
      len(j) == MathSqrt(Add(Add(Mul(m[0][j], m[0][j]), Mul(m[1][j], m[1][j])),
                             Mul(m[2][j], m[2][j])))
  IN  [hdr EXCEPT !.pixDims = [@ EXCEPT ![1] = len(0), ![2] = len(1), ![3] = len(2)]]

\* lines 650-671: the voxel bytes; a paired buffer shorter than the header
\* asks for is taken to be gzip-compressed.  Without a paired buffer line
\* 656 reads byteLength of undefined
HEADData(hdr, paired) ==
  LET nBytes == Mul(Mul(Mul(Mul(hdr.numBitsPerVoxel \div 8, hdr.dims[1]), hdr.dims[2]),
                        hdr.dims[3]), hdr.dims[4])
  IN  IF ~paired.given THEN [err |-> "TypeError", hdr |-> hdr, imgRaw |-> <<>>]
      ELSE IF Lt(Len(paired.bytes), nBytes)
        THEN (IF paired.gzipped
                THEN [err |-> "none", hdr |-> hdr, imgRaw |-> paired.inflated]
                ELSE [err |-> "incorrect header check", hdr |-> hdr, imgRaw |-> <<>>])
      ELSE [err |-> "none", hdr |-> hdr, imgRaw |-> paired.bytes]

readHEAD(attrs, paired) ==
  LET start == [hdr |-> [NIFTI1 EXCEPT !.dims[0] = 3],
                orientSpecific |-> <<0, 0, 0>>, xyzOrigin |-> <<0, 0, 0>>,
                xyzDelta |-> <<1, 1, 1>>, hasIJK_TO_DICOM_REAL |-> FALSE]
      Oriented(st) ==
        IF st.hasIJK_TO_DICOM_REAL THEN SetPixDimFromSForm(st.hdr)
        ELSE THD_daxes_to_NIFTI(st.hdr, st.xyzDelta, st.xyzOrigin, st.orientSpecific)
  IN  HEADData(Oriented(HEADAttributes(start, attrs, 1)), paired)

(***************************************************************************)
(* readMGH, lines 440-553.  The buffer is the sequence of its bytes; the   *)
(* header fields are big-endian.  A gzipped file is given with the bytes   *)
(* an inflater makes of it.                                                *)
(***************************************************************************)
\* DataView.getInt32(off, false) and DataView.getFloat32(off, false)
getInt32(raw, off) == SignedValue([k \in 0..3 |-> raw[off + 4 - k]], 4)

getFloat32(raw, off) == FloatValue(Float32Table, [k \in 0..3 |-> raw[off + 4 - k]], 4)

\* raw.slice(begin, end) for begin >= 0: an end below 0 counts from the end
\* of the buffer, and both are clamped to its length
Slice(raw, begin, end) ==
  LET len == Len(raw)
      from == IF begin > len THEN len ELSE begin
      to == IF end < 0 THEN (IF len + end < 0 THEN 0 ELSE len + end)
            ELSE IF end > len THEN len ELSE end
  IN  IF from < to THEN SubSeq(raw, from + 1, to) ELSE <<>>

\* x / 2.0 of a whole number: the files of the model hold even extents
HalfOf(x) == CHOOSE h \in (0 - MathAbs(x))..MathAbs(x) : 2 * h = x

\* lines 460-482: the header fields
MGHFields(raw) ==
  [version |-> getInt32(raw, 0), width |-> getInt32(raw, 4), height |-> getInt32(raw, 8),
   depth |-> getInt32(raw, 12), nframes |-> getInt32(raw, 16), mtype |-> getInt32(raw, 20),
   spacingX |-> getFloat32(raw, 30), spacingY |-> getFloat32(raw, 34),
   spacingZ |-> getFloat32(raw, 38),
   xr |-> getFloat32(raw, 42), xa |-> getFloat32(raw, 46), xs |-> getFloat32(raw, 50),
   yr |-> getFloat32(raw, 54), ya |-> getFloat32(raw, 58), ys |-> getFloat32(raw, 62),
   zr |-> getFloat32(raw, 66), za |-> getFloat32(raw, 70), zs |-> getFloat32(raw, 74)]

\* lines 441-444 and 485-507: datatype, extents and spacings
MGHHeader(f) ==
  LET bits == CASE f.mtype = 0 -> 8 [] f.mtype = 4 -> 16 [] f.mtype \in {1, 3} -> 32
                [] OTHER -> NIFTI1.numBitsPerVoxel
      code == CASE f.mtype = 0 -> DT_UNSIGNED_CHAR [] f.mtype = 4 -> DT_SIGNED_SHORT
                [] f.mtype = 1 -> DT_SIGNED_INT [] f.mtype = 3 -> DT_FLOAT
                [] OTHER -> NIFTI1.datatypeCode
  IN  [NIFTI1 EXCEPT
         !.dims = [k \in 0..7 |->
                     CASE k = 0 -> IF f.nframes > 1 THEN 4 ELSE 3
                       [] k = 1 -> f.width [] k = 2 -> f.height [] k = 3 -> f.depth
                       [] k = 4 -> f.nframes [] OTHER -> 0],
         !.pixDims = [k \in 0..7 |->
                        CASE k = 1 -> f.spacingX [] k = 2 -> f.spacingY
                          [] k = 3 -> f.spacingZ [] k \in {0, 4} -> 1 [] OTHER -> 0],
         !.numBitsPerVoxel = bits, !.datatypeCode = code, !.sform_code = 1]

\* lines 508-525: mat4.fromValues, the 16 values in the order given
MGHrot44(f, pixDims) ==
  [d \in 0..15 |->
     CASE d = 0 -> Mul(f.xr, pixDims[1]) [] d = 1 -> Mul(f.yr, pixDims[2])
       [] d = 2 -> Mul(f.zr, pixDims[3])
       [] d = 4 -> Mul(f.xa, pixDims[1]) [] d = 5 -> Mul(f.ya, pixDims[2])
       [] d = 6 -> Mul(f.za, pixDims[3])
       [] d = 8 -> Mul(f.xs, pixDims[1]) [] d = 9 -> Mul(f.ys, pixDims[2])
       [] d = 10 -> Mul(f.zs, pixDims[3])
       [] d = 15 -> 1 [] OTHER -> 0]

\* lines 533-539: PxyzOffset[i] = PxyzOffset[i] + rot44[i + j * 4] * Pcrs[j]
MGHOffset(rot44, Pcrs) ==
  [i \in 0..2 |-> Add(Add(Add(0, Mul(rot44[i], Pcrs[0])),
                          Mul(rot44[i + 4], Pcrs[1])),
                      Mul(rot44[i + 8], Pcrs[2]))]

\* lines 526-552: the affine and the voxel bytes
MGHAffine(hdr, rot44, raw) ==
  LET base == 0
      Pcrs == [j \in 0..2 |-> HalfOf(hdr.dims[j + 1]) + base]
      PxyzOffset == MGHOffset(rot44, Pcrs)
      nBytes == hdr.dims[1] * hdr.dims[2] * hdr.dims[3] * hdr.dims[4]
                  * (hdr.numBitsPerVoxel \div 8)
      vox_offset == 284
  IN  [err |-> "none",
       hdr |-> [hdr EXCEPT !.affine =
                  [i \in 0..3 |-> [j \in 0..3 |->
                     IF i = 3 THEN (IF j = 3 THEN 1 ELSE 0)
                     ELSE IF j = 3 THEN PxyzOffset[i]
                     ELSE rot44[4 * i + j]]]],
       imgRaw |-> Slice(raw, vox_offset, vox_offset + nBytes)]

\* lines 440-553.  Without an inflater a gzipped buffer is left as it is:
\* alert returns where it is defined, raw.buffer is undefined and
\* new DataView(undefined) is a TypeError.  A header field read past the end
\* of the buffer is a RangeError.
readMGH(mgh, hasInflate, hasAlert) ==
  LET buffer == mgh.bytes
      failed(err) == [err |-> err, hdr |-> NIFTI1, imgRaw |-> <<>>]
      Parsed(raw, f, hdr) == MGHAffine(hdr, MGHrot44(f, hdr.pixDims), raw)
      Read(raw) ==
        IF Len(raw) < 90 THEN failed("RangeError")
        ELSE Parsed(raw, MGHFields(raw), MGHHeader(MGHFields(raw)))
  IN  IF Len(buffer) < 1 \/ (buffer[1] = 31 /\ Len(buffer) < 2) THEN failed("RangeError")
      ELSE IF buffer[1] = 31 /\ buffer[2] = 139
        THEN (IF hasInflate THEN Read(mgh.inflated)
              ELSE IF hasAlert THEN failed("TypeError")
              ELSE failed("ReferenceError"))
      ELSE Read(buffer)

\* lines 92-107 on: the constructor given what the selected decoder made of
\* dataBuffer; an error thrown in the decoder ends the constructor
FromDecoder(d, id, name, colorMap, trustCalMinMax, percentileFrac, ignoreZeroVoxels, useQFormNotSForm, platformLE) ==
  IF d.err # "none"
    THEN Thrown(d.err,
                BareImage(id, name, colorMap, trustCalMinMax, percentileFrac,
                          ignoreZeroVoxels),
                <<>>)
    ELSE NVImage(id, [hdr |-> d.hdr, imgRaw |-> d.imgRaw], name, colorMap, trustCalMinMax,
                 percentileFrac, ignoreZeroVoxels, useQFormNotSForm, platformLE)

(***************************************************************************)
(* loadFromUrl, lines 1291-1353, and loadFromFile, lines 1390-1428.  Both  *)
(* are async: what the caller gets is a promise that is fulfilled with a   *)
(* value or rejected with an error.  The url is a single path segment, so  *)
(* the image name is the url itself.                                       *)
(***************************************************************************)
Settled(via, settled, err, ctorErr, hasImage, image) ==
  [via |-> via, settled |-> settled, err |-> err, ctorErr |-> ctorErr,
   hasImage |-> hasImage, image |-> image, resolved |-> <<>>]

Rejected(via, err, ctorErr) == Settled(via, "rejected", err, ctorErr, FALSE, <<>>)

\* the promise of a loader whose constructor call ended as r; a loader that
\* catches fulfils with null where the constructor threw
AfterNew(via, r, catches) ==
  IF r.err = "none" THEN Settled(via, "fulfilled", "none", "none", TRUE, r.image)
  ELSE IF catches THEN Settled(via, "fulfilled", "none", r.err, FALSE, <<>>)
  ELSE Rejected(via, r.err, r.err)

\* responseOk: what fetch(url) answered
loadFromUrl(id, a, responseOk) ==
  IF a.name = <<>> THEN Rejected("loadFromUrl", "Error", "not run")
  ELSE IF ~responseOk THEN Rejected("loadFromUrl", "Error", "not run")
  ELSE IF Ext(a.name) = <<>>                    \* line 1313: undefined.toUpperCase()
    THEN Rejected("loadFromUrl", "TypeError", "not run")
  ELSE AfterNew("loadFromUrl",
                NVImage(id, a.decoded, a.name, a.colorMap, a.trustCalMinMax,
                        a.percentileFrac, a.ignoreZeroVoxels, FALSE, a.platformLE),
                FALSE)

\* readOk: whether the FileReader delivered the bytes; every exception is
\* caught at line 1422 and the promise is fulfilled with nvimage, null if
\* the constructor did not return
loadFromFile(id, a, readOk) ==
  IF ~readOk THEN Settled("loadFromFile", "fulfilled", "none", "not run", FALSE, <<>>)
  ELSE AfterNew("loadFromFile",
                NVImage(id, a.decoded, a.name, a.colorMap, a.trustCalMinMax,
                        a.percentileFrac, a.ignoreZeroVoxels, FALSE, a.platformLE),
                TRUE)

(***************************************************************************)
(* Methods of a constructed image                                          *)
(***************************************************************************)
\* lines 1116-1124
setColorMap(im, cm) ==
  IF toLowerCase(cm) \in colorMaps
    THEN calMinMax([im EXCEPT !.colorMap = toLowerCase(cm)])
    ELSE im

\* lines 1437-1445: new NVImage() takes every default and returns at line 87;
\* Object.assign copies the fields of hdr, the arrays among them by reference
clone(im) ==
  calMinMax(WithRAS([BareImage(im.id, <<>>, "gray", TRUE, 2, FALSE)
                       EXCEPT !.hasHdr = TRUE, !.hdr = im.hdr,
                              !.hasImg = TRUE, !.img = im.img]))

\* lines 1453-1455
zeroImage(im) == [im EXCEPT !.img = [i \in DOMAIN im.img |-> 0]]

\* lines 1515-1526
zerosLike(im, dataType) ==
  LET Typed(zeroClone) ==
        IF dataType = "uint8"
          THEN [zeroClone EXCEPT !.hdr.datatypeCode = DT_UNSIGNED_CHAR,
                                 !.hdr.numBitsPerVoxel = 8]
          ELSE zeroClone
  IN  Typed(zeroImage(clone(im)))

\* lines 1477-1505, the fields getValue reads
getImageMetadata(im) == [nx |-> im.hdr.dims[1], ny |-> im.hdr.dims[2]]

\* lines 1538-1556
getValue(im, x, y, z) ==
  LET md == getImageMetadata(im)
      at(k) == IF k + 1 \in DOMAIN im.img THEN im.img[k + 1] ELSE Undefined
      luminance(vx) ==
        IF isNaN(at(vx)) \/ isNaN(at(vx + 1)) \/ isNaN(at(vx + 2)) THEN NaN
        ELSE MathRound(at(vx) * 21 + at(vx + 1) * 72 + at(vx + 2) * 7, 100)
      vox == x + y * md.nx + z * md.nx * md.ny
  IN  IF im.hdr.datatypeCode = DT_RGBA32 THEN luminance(4 * vox)
      ELSE IF im.hdr.datatypeCode = DT_RGB THEN luminance(3 * vox)
      ELSE Add(Mul(im.hdr.scl_slope, at(vox)), im.hdr.scl_inter)

(***************************************************************************)
(* Headers and voxel bytes of the scenarios                                *)
(***************************************************************************)
RECURSIVE Flatten(_)
Flatten(seqs) == IF seqs = <<>> THEN <<>> ELSE Head(seqs) \o Flatten(Tail(seqs))

Arr8(d0, d1, d2, d3) ==
  [k \in 0..7 |-> IF k = 0 THEN d0 ELSE IF k = 1 THEN d1 ELSE IF k = 2 THEN d2
                  ELSE IF k = 3 THEN d3 ELSE IF k = 4 THEN 1 ELSE 0]

BitsOf(dt) ==
  CASE dt \in {DT_UNSIGNED_CHAR, DT_INT8} -> 8
    [] dt \in {DT_SIGNED_SHORT, DT_UINT16} -> 16
    [] dt = DT_RGB -> 24
    [] dt \in {DT_SIGNED_INT, DT_FLOAT, DT_UINT32, DT_RGBA32} -> 32
    [] dt \in {DT_COMPLEX, DT_DOUBLE, DT_INT64, DT_UINT64} -> 64
    [] OTHER -> 0

\* the bytes of one element holding the value v (0 <= v), in file order
EncodeElement(dt, v, littleEndian) ==
  LET width == IF BitsOf(dt) = 0 THEN 1 ELSE BitsOf(dt) \div 8
      be == IF dt = DT_FLOAT THEN (CHOOSE row \in Float32Table : row[1] = v)[2]
            ELSE IF dt = DT_DOUBLE THEN (CHOOSE row \in Float64Table : row[1] = v)[2]
            ELSE [k \in 1..width |->
                    IF width - k > 3 THEN 0 ELSE (v \div Pow256(width - k)) % 256]
  IN  IF littleEndian THEN [k \in 1..width |-> be[width + 1 - k]] ELSE be

Encode(dt, values, littleEndian) ==
  Flatten([i \in 1..Len(values) |-> EncodeElement(dt, values[i], littleEndian)])

Header(dims, pixDims, affine, quat, qoffset, codes, dt, littleEndian, slope, cal) ==
  [dims |-> dims, pixDims |-> pixDims, affine |-> affine,
   quatern_b |-> quat[1], quatern_c |-> quat[2], quatern_d |-> quat[3],
   qoffset_x |-> qoffset[1], qoffset_y |-> qoffset[2], qoffset_z |-> qoffset[3],
   qform_code |-> codes[1], sform_code |-> codes[2],
   datatypeCode |-> dt, numBitsPerVoxel |-> BitsOf(dt), littleEndian |-> littleEndian,
   scl_slope |-> slope, scl_inter |-> 0, cal_min |-> cal[1], cal_max |-> cal[2]]

NiiName == <<"a", ".", "n", "i", "i">>

(***************************************************************************)
(* Matrices of the scenarios                                               *)
(***************************************************************************)
Mat4(block, t) ==
  [i \in 0..3 |-> [j \in 0..3 |->
     IF i < 3 /\ j < 3 THEN block[i][j]
     ELSE IF i < 3 THEN t
     ELSE IF j = 3 THEN 1 ELSE 0]]

WithNaNAt(m, at) ==
  [i \in 0..3 |-> [j \in 0..3 |-> IF <<i, j>> = at THEN NaN ELSE m[i][j]]]

NoPosition == <<4, 4>>

Idle == <<>>

(***************************************************************************)
(* SpecAffineOK: isAffineOK applied to a matrix                            *)
(***************************************************************************)
InitAffineOK ==
  /\ pc = "matrix"
  /\ \E v \in {1, 0 - 2} : \E t \in {0, 5} :
       \E block \in [0..2 -> [0..2 -> {0, v}]] :
         \E at \in {NoPosition} \cup ((0..3) \X (0..3)) :
           mtx = WithNaNAt(Mat4(block, t), at)
  /\ affineOK = FALSE
  /\ ras = Idle /\ buf = Idle /\ swp = Idle /\ args = Idle /\ outcome = Idle
  /\ file = Idle /\ images = Idle /\ heap = Idle /\ lastOp = Idle

CheckAffine ==
  /\ pc = "matrix"
  /\ affineOK' = isAffineOK(mtx)
  /\ pc' = "checked"
  /\ UNCHANGED <<mtx, ras, buf, swp, args, outcome, file, images, heap, lastOp>>

SpecAffineOK == InitAffineOK /\ [][CheckAffine]_vars

(***************************************************************************)
(* SpecRAS: calculateRAS applied to a header affine                        *)
(***************************************************************************)
MaxCoef == 2

RasVals == {NaN} \cup ((0 - 1)..MaxCoef)

InitRAS ==
  /\ pc = "affine"
  /\ \E c01 \in [0..2 -> [0..1 -> RasVals]] : \E c2 \in [0..2 -> {0 - 1, 1}] :
       mtx = Mat4([i \in 0..2 |-> [j \in 0..2 |-> IF j < 2 THEN c01[i][j] ELSE c2[i]]], 0)
  /\ ras = Idle
  /\ affineOK = FALSE
  /\ buf = Idle /\ swp = Idle /\ args = Idle /\ outcome = Idle
  /\ file = Idle /\ images = Idle /\ heap = Idle /\ lastOp = Idle

CalculateRAS ==
  /\ pc = "affine"
  /\ ras' = calculateRAS(mtx)
  /\ pc' = "ras"
  /\ UNCHANGED <<mtx, affineOK, buf, swp, args, outcome, file, images, heap, lastOp>>

SpecRAS == InitRAS /\ [][CalculateRAS]_vars

(***************************************************************************)
(* SpecSwap: the constructor's swap pass applied, once and again, to the   *)
(* bytes of a foreign-endian file of 16-bit or 32-bit elements             *)
(***************************************************************************)
MaxSwapVox == 2

ElemPatterns(width) ==
  IF width = 2
    THEN {<<0, 0>>, <<1, 2>>, <<255, 0>>, <<0, 128>>, <<128, 255>>, <<255, 255>>}
    ELSE {<<0, 0, 0, 0>>, <<1, 2, 3, 4>>, <<128, 0, 0, 0>>, <<0, 0, 0, 128>>,
          <<255, 128, 127, 1>>, <<0, 255, 0, 0>>, <<255, 255, 255, 255>>}

SwapHeaders ==
  { [datatypeCode |-> dt[1], numBitsPerVoxel |-> dt[2], littleEndian |-> le] :
      dt \in {<<DT_SIGNED_SHORT, 16>>, <<DT_UINT16, 16>>, <<DT_FLOAT, 32>>,
              <<DT_SIGNED_INT, 32>>, <<DT_UINT32, 32>>},
      le \in BOOLEAN }

InitSwap ==
  /\ pc = "bytes"
  /\ \E h \in SwapHeaders : \E n \in 0..MaxSwapVox :
       \E elems \in [1..n -> ElemPatterns(h.numBitsPerVoxel \div 8)] :
         /\ buf = Flatten(elems)
         /\ swp = [hdr |-> h, platformLE |-> ~h.littleEndian, orig |-> Flatten(elems),
                   passes |-> 0]
  /\ mtx = Idle /\ affineOK = FALSE /\ ras = Idle /\ args = Idle /\ outcome = Idle
  /\ file = Idle /\ images = Idle /\ heap = Idle /\ lastOp = Idle

SwapPass ==
  /\ pc = "bytes"
  /\ swp.passes < 2
  /\ LET r == SwapBytes(swp.hdr, buf, swp.platformLE)
     IN  /\ r.err = "none"
         /\ buf' = r.raw
  /\ swp' = [swp EXCEPT !.passes = @ + 1]
  /\ UNCHANGED <<pc, mtx, affineOK, ras, args, outcome, file, images, heap, lastOp>>

SpecSwap == InitSwap /\ [][SwapPass]_vars

(***************************************************************************)
(* SpecCtor: one call of the constructor.  The arguments are drawn from    *)
(* two families: headers that differ in their spatial transform, and       *)
(* files that differ in datatype, byte order, voxels, dims and name.        *)
(***************************************************************************)
QuatVals == {NaN, 0 - QuatUnit, 0, QuatUnit, QuatUnit + 1}

\* the triples whose a = sqrt(1 - (b^2 + c^2 + d^2)) the model can hold
Quaternions ==
  { q \in QuatVals \X QuatVals \X {0, QuatUnit} :
      \/ isNaN(q[1]) \/ isNaN(q[2])
      \/ q[1] * q[1] + q[2] * q[2] + q[3] * q[3] > QuatOne
      \/ IsSquare(QuatOne - (q[1] * q[1] + q[2] * q[2] + q[3] * q[3])) }

StoredBlocks ==
  { <<<<2, 0, 0>>, <<0, 2, 0>>, <<0, 0, 2>>>>,
    <<<<0, 0, 0>>, <<0, 0, 0>>, <<0, 0, 0>>>>,
    <<<<0, 0 - 3, 0>>, <<1, 0, 0>>, <<0, 0, 2>>>>,
    <<<<1, 0, 2>>, <<2, 0, 1>>, <<1, 0, 1>>>>,
    <<<<1, NaN, 0>>, <<0, 1, 0>>, <<0, 0, 1>>>> }

Spacings ==
  { <<QuatOne, QuatOne, QuatOne>>, <<0, QuatOne, 2 * QuatOne>>,
    <<NaN, 0, QuatOne>>, <<2 * QuatOne, NaN, 0>>, <<0 - QuatOne, QuatOne, QuatOne>> }

TransformArgs ==
  { [name |-> NiiName,
     decoded |->
       [hdr |-> Header(Arr8(3, 2, 1, 1), Arr8(qfac, sp[1], sp[2], sp[3]),
                       Mat4([i \in 0..2 |-> [j \in 0..2 |-> blk[i + 1][j + 1]]], 7),
                       q, <<5, 0, 0 - 5>>, codes, DT_UNSIGNED_CHAR, TRUE, 1, <<0, 0>>),
        imgRaw |-> <<1, 2>>],
     colorMap |-> "gray", trustCalMinMax |-> TRUE, percentileFrac |-> 2,
     ignoreZeroVoxels |-> FALSE, useQFormNotSForm |-> useQ, platformLE |-> TRUE] :
     blk \in StoredBlocks, sp \in Spacings, qfac \in {0, 0 - 1, NaN},
     q \in Quaternions, codes \in {<<0, 1>>, <<1, 1>>, <<2, 1>>}, useQ \in BOOLEAN }

Datatypes ==
  {0, DT_UNSIGNED_CHAR, DT_SIGNED_SHORT, DT_SIGNED_INT, DT_FLOAT, DT_COMPLEX, DT_DOUBLE,
   DT_RGB, DT_INT8, DT_UINT16, DT_UINT32, DT_INT64, DT_UINT64, DT_RGBA32}

VoxelValues == {<<>>, <<1, 2>>, <<2, 0, 1000>>}

Names == {<<>>, <<"a">>, NiiName}

\* dims[1..3] of a file holding n voxels: the extents that match, and
\* extents the bytes do not fill; no bytes at all come with an extent <= 0
DimsFor(n) ==
  IF n = 0 THEN {Arr8(3, 0, 1, 1), Arr8(3, 2, 0 - 1, 1), Arr8(3, 1, 1, 0)}
  ELSE {Arr8(3, n, 1, 1), Arr8(3, n, 2, 1)}

Volumes == UNION { {<<vals, dims>> : dims \in DimsFor(Len(vals))} : vals \in VoxelValues }

Files(names, datatypes, byteOrders, platforms, volumes, slopes, stats) ==
  { [name |-> nm,
     decoded |->
       [hdr |-> Header(vol[2], Arr8(1, 1, 1, 1), Diag(1, 1, 1), <<0, 0, 0>>, <<0, 0, 0>>,
                       <<0, 1>>, dt, le, slope, st[1]),
        imgRaw |-> Encode(dt, vol[1], le)],
     colorMap |-> st[2], trustCalMinMax |-> st[3], percentileFrac |-> st[4],
     ignoreZeroVoxels |-> st[5], useQFormNotSForm |-> FALSE, platformLE |-> plat] :
     nm \in names, dt \in datatypes, le \in byteOrders, plat \in platforms,
     vol \in volumes, slope \in slopes, st \in stats }

FileArgs(stats) == Files(Names, Datatypes, BOOLEAN, BOOLEAN, Volumes, {0, NaN, 2}, stats)

DefaultStats == {<<<<0, 0>>, "gray", TRUE, 2, FALSE>>}

CtorStats ==
  DefaultStats \cup {<<<<Milli, 3 * Milli>>, "gray", TRUE, 2, FALSE>>,
                     <<<<0, 0>>, "ranged", FALSE, 50, TRUE>>}

NoOutcome == Settled("none", "none", "none", "not run", FALSE, <<>>)

InitCtor ==
  /\ pc = "args"
  /\ args \in TransformArgs \cup FileArgs(CtorStats)
  /\ outcome = NoOutcome
  /\ mtx = Idle /\ affineOK = FALSE /\ ras = Idle /\ buf = Idle /\ swp = Idle
  /\ file = Idle /\ images = Idle /\ heap = Idle /\ lastOp = Idle

\* new NVImage(dataBuffer, name, ...)
New ==
  /\ pc = "args"
  /\ \E r \in {NVImage(1, args.decoded, args.name, args.colorMap, args.trustCalMinMax,
                       args.percentileFrac, args.ignoreZeroVoxels,
                       args.useQFormNotSForm, args.platformLE)} :
       outcome' = [via |-> "new",
                   settled |-> IF r.err = "none" THEN "returned" ELSE "thrown",
                   err |-> r.err, ctorErr |-> r.err, hasImage |-> r.err = "none",
                   image |-> r.image, resolved |-> r.resolved]
  /\ pc' = "done"
  /\ UNCHANGED <<mtx, affineOK, ras, buf, swp, args, file, images, heap, lastOp>>

SpecCtor == InitCtor /\ [][New]_vars

(***************************************************************************)
(* SpecLoad: one call of a loader                                          *)
(***************************************************************************)
InitLoad ==
  /\ pc = "args"
  /\ args \in FileArgs(DefaultStats)
  /\ outcome = NoOutcome
  /\ mtx = Idle /\ affineOK = FALSE /\ ras = Idle /\ buf = Idle /\ swp = Idle
  /\ file = Idle /\ images = Idle /\ heap = Idle /\ lastOp = Idle

LoadFromUrl ==
  /\ pc = "args"
  /\ \E responseOk \in BOOLEAN : outcome' = loadFromUrl(1, args, responseOk)
  /\ pc' = "done"
  /\ UNCHANGED <<mtx, affineOK, ras, buf, swp, args, file, images, heap, lastOp>>

LoadFromFile ==
  /\ pc = "args"
  /\ \E readOk \in BOOLEAN : outcome' = loadFromFile(1, args, readOk)
  /\ pc' = "done"
  /\ UNCHANGED <<mtx, affineOK, ras, buf, swp, args, file, images, heap, lastOp>>

SpecLoad == InitLoad /\ [][LoadFromUrl \/ LoadFromFile]_vars

(***************************************************************************)
(* SpecImages: the images a caller builds from one file with the           *)
(* constructor, clone, zerosLike, zeroImage, setColorMap, calMinMax and    *)
(* getValue.  With each image the heap records which object holds the      *)
(* arrays of its header (dims, pixDims, affine) and which its voxels: two  *)
(* images naming the same object see each other's writes.                  *)
(* SpecAlias adds the caller's own writes into those arrays.               *)
(***************************************************************************)
MaxImages == 2

MaxWrites == 1

LifeStats ==
  {<<<<Milli, 3 * Milli>>, "gray", TRUE, 2, FALSE>>,
   <<<<0, 0>>, "gray", FALSE, 50, FALSE>>}

LifeVolumes == {<<<<2, 0, 1000>>, Arr8(3, 3, 1, 1)>>}

LifeFiles ==
  Files({NiiName}, {DT_UNSIGNED_CHAR, DT_RGB}, {TRUE}, {TRUE},
        LifeVolumes, {0, NaN, 2}, LifeStats)

AliasFiles ==
  Files({NiiName}, {DT_UNSIGNED_CHAR}, {TRUE}, {TRUE}, LifeVolumes, {2}, LifeStats)

\* the last call: its name, the image a write went to, the value returned
NoOp == [op |-> "none", target |-> 0, value |-> 0]

InitFrom(files) ==
  /\ pc = "images"
  /\ file \in files
  /\ images = <<>>
  /\ heap = [arrays |-> <<>>, buffer |-> <<>>, writes |-> 0]
  /\ lastOp = NoOp
  /\ mtx = Idle /\ affineOK = FALSE /\ ras = Idle /\ buf = Idle /\ swp = Idle
  /\ args = Idle /\ outcome = Idle

\* the image and the objects it holds become entry Len(images) + 1
Added(im, arrays, buffer, op) ==
  /\ images' = Append(images, im)
  /\ heap' = [heap EXCEPT !.arrays = Append(@, arrays), !.buffer = Append(@, buffer)]
  /\ lastOp' = [op |-> op, target |-> 0, value |-> 0]

Construct ==
  /\ pc = "images" /\ Len(images) < MaxImages
  /\ \E r \in {NVImage(Len(images) + 1, file.decoded, file.name, file.colorMap,
                       file.trustCalMinMax, file.percentileFrac, file.ignoreZeroVoxels,
                       file.useQFormNotSForm, file.platformLE)} :
       /\ r.err = "none"
       /\ Added(r.image, Len(images) + 1, Len(images) + 1, "new")
  /\ UNCHANGED <<pc, mtx, affineOK, ras, buf, swp, args, outcome, file>>

\* hdr.dims, hdr.pixDims and hdr.affine of the clone are the source's arrays;
\* img.slice() is a new buffer
Clone ==
  /\ pc = "images" /\ Len(images) < MaxImages
  /\ \E i \in DOMAIN images :
       Added(clone(images[i]), heap.arrays[i], Len(images) + 1, "clone")
  /\ UNCHANGED <<pc, mtx, affineOK, ras, buf, swp, args, outcome, file>>

ZerosLike ==
  /\ pc = "images" /\ Len(images) < MaxImages
  /\ \E i \in DOMAIN images, dataType \in {"same", "uint8"} :
       Added(zerosLike(images[i], dataType), heap.arrays[i], Len(images) + 1, "zerosLike")
  /\ UNCHANGED <<pc, mtx, affineOK, ras, buf, swp, args, outcome, file>>

\* a method that changes fields of image i only
Updated(i, im, op, value) ==
  /\ images' = [images EXCEPT ![i] = im]
  /\ lastOp' = [op |-> op, target |-> 0, value |-> value]

\* img.fill(0) writes into the buffer: every image holding it sees the zeros
ZeroImage ==
  /\ pc = "images"
  /\ \E i \in DOMAIN images :
       /\ images' = [j \in DOMAIN images |->
                       IF heap.buffer[j] = heap.buffer[i] THEN zeroImage(images[j])
                       ELSE images[j]]
       /\ lastOp' = [op |-> "zeroImage", target |-> 0, value |-> 0]
  /\ UNCHANGED <<pc, mtx, affineOK, ras, buf, swp, args, outcome, file, heap>>

SetColorMap ==
  /\ pc = "images"
  /\ \E i \in DOMAIN images, cm \in {"gray", "Ranged", "bogus"} :
       Updated(i, setColorMap(images[i], cm), "setColorMap", 0)
  /\ UNCHANGED <<pc, mtx, affineOK, ras, buf, swp, args, outcome, file, heap>>

CalMinMax ==
  /\ pc = "images"
  /\ \E i \in DOMAIN images : Updated(i, calMinMax(images[i]), "calMinMax", 0)
  /\ UNCHANGED <<pc, mtx, affineOK, ras, buf, swp, args, outcome, file, heap>>

GetValue ==
  /\ pc = "images"
  /\ \E i \in DOMAIN images, x \in 0..1 :
       Updated(i, images[i], "getValue", getValue(images[i], x, 0, 0))
  /\ UNCHANGED <<pc, mtx, affineOK, ras, buf, swp, args, outcome, file, heap>>

Methods ==
  Construct \/ Clone \/ ZerosLike \/ ZeroImage \/ SetColorMap \/ CalMinMax \/ GetValue

InitImages == InitFrom(LifeFiles)

SpecImages == InitImages /\ [][Methods]_vars

\* the caller writes image.hdr.dims[1], image.hdr.pixDims[1] or
\* image.hdr.affine[0][3] of image i
WriteHeader ==
  /\ pc = "images" /\ heap.writes < MaxWrites
  /\ \E i \in DOMAIN images, field \in {"dims", "pixDims", "affine"} :
       LET written(h) ==
             CASE field = "dims" -> [h EXCEPT !.dims[1] = @ + 1]
               [] field = "pixDims" -> [h EXCEPT !.pixDims[1] = @ + 1]
               [] OTHER -> [h EXCEPT !.affine[0][3] = @ + 1]
       IN  images' = [j \in DOMAIN images |->
                        IF heap.arrays[j] = heap.arrays[i]
                          THEN [images[j] EXCEPT !.hdr = written(@)]
                          ELSE images[j]]
       /\ lastOp' = [op |-> "write", target |-> i, value |-> 0]
  /\ heap' = [heap EXCEPT !.writes = @ + 1]
  /\ UNCHANGED <<pc, mtx, affineOK, ras, buf, swp, args, outcome, file>>

\* the caller writes image.img[0] of image i
WriteVoxel ==
  /\ pc = "images" /\ heap.writes < MaxWrites
  /\ \E i \in DOMAIN images :
       /\ Len(images[i].img) > 0
       /\ images' = [j \in DOMAIN images |->
                       IF heap.buffer[j] = heap.buffer[i]
                         THEN [images[j] EXCEPT !.img[1] = 7]
                         ELSE images[j]]
       /\ lastOp' = [op |-> "write", target |-> i, value |-> 0]
  /\ heap' = [heap EXCEPT !.writes = @ + 1]
  /\ UNCHANGED <<pc, mtx, affineOK, ras, buf, swp, args, outcome, file>>

InitAlias == InitFrom(AliasFiles)

SpecAlias == InitAlias /\ [][Methods \/ WriteHeader \/ WriteVoxel]_vars

(***************************************************************************)
(* SpecRange: one call of calMinMax on an image that differs in colormap,  *)
(* trustCalMinMax, the header's cal_min / cal_max, voxels, percentileFrac, *)
(* ignoreZeroVoxels, slope and the statistics it held before.              *)
(***************************************************************************)
MajorityVox == 1000

\* all voxels but the last are 0, the last is 1000
Majority == [i \in 1..MajorityVox |-> IF i = MajorityVox THEN 1000 ELSE 0]

RangeVoxels ==
  { <<>>, <<5>>, <<2, 0, 1000>>, <<NaN, 1, 2>>, <<1, NaN, 3, 3>>,
    <<0, 0, 4, 4, 4, 8>>, Majority }

RangeCals ==
  { <<0, 0>>, <<Milli, 3 * Milli>>, <<NaN, Milli>>, <<3 * Milli, Milli>>, <<0, 8 * Milli>> }

\* percentileFrac in percent: 0.02, 0.5, 0.9 and 1.5
RangeFracs == {2, 50, 90, 150}

RangeImage(img, cal, slope, colorMap, trust, frac, ignoreZero, prior) ==
  [BareImage(1, NiiName, colorMap, trust, frac, ignoreZero) EXCEPT
     !.hasHdr = TRUE,
     !.hdr = Header(Arr8(3, Len(img), 1, 1), Arr8(1, 1, 1, 1), Diag(1, 1, 1),
                    <<0, 0, 0>>, <<0, 0, 0>>, <<0, 1>>, DT_FLOAT, TRUE, slope, cal),
     !.hasImg = TRUE, !.img = img,
     !.global_min = prior, !.global_max = prior]

RangeImages ==
  { RangeImage(img, cal, slope, cm, trust, frac, iz, prior) :
      img \in RangeVoxels, cal \in RangeCals, slope \in {1, 2},
      cm \in {"gray", "Ranged", "plasma"}, trust \in BOOLEAN, frac \in RangeFracs,
      iz \in BOOLEAN, prior \in {Undefined, 5 * Milli} }

InitRange ==
  /\ pc = "image"
  /\ args \in RangeImages
  /\ outcome = Idle
  /\ mtx = Idle /\ affineOK = FALSE /\ ras = Idle /\ buf = Idle /\ swp = Idle
  /\ file = Idle /\ images = Idle /\ heap = Idle /\ lastOp = Idle

\* image.calMinMax()
ComputeRange ==
  /\ pc = "image"
  /\ pc' = "ranged"
  /\ outcome' = [image |-> calMinMax(args), cuts |-> HistogramCuts(args)]
  /\ UNCHANGED <<mtx, affineOK, ras, buf, swp, args, file, images, heap, lastOp>>

SpecRange == InitRange /\ [][ComputeRange]_vars

(***************************************************************************)
(* SpecDispatch: the constructor's choice of decoder, for names that       *)
(* differ in stem, extension and letter case.                              *)
(***************************************************************************)
Stems == { <<>>, <<"a">>, <<"a", ".", "b">>, <<"a", ".", "n", "r", "r", "d">> }

Suffixes ==
  { <<>>, <<".">>,
    <<".", "n", "r", "r", "d">>, <<".", "N", "R", "R", "D">>, <<".", "N", "r", "r", "d">>,
    <<".", "n", "h", "d", "r">>, <<".", "N", "H", "D", "R">>,
    <<".", "m", "g", "h">>, <<".", "M", "G", "H">>,
    <<".", "m", "g", "z">>, <<".", "M", "g", "Z">>,
    <<".", "h", "e", "a", "d">>, <<".", "H", "E", "A", "D">>, <<".", "H", "e", "a", "d">>,
    <<".", "n", "i", "i">>, <<".", "N", "I", "I">>, <<".", "g", "z">>,
    <<".", "B", "R", "I", "K">>, <<".", "x", "y", "z">>,
    <<".", "n", "r", "r", "d", "x">>, <<".", "h", "e", "a">>, <<".", "m", "g">> }

DispatchNames == { stem \o suffix : stem \in Stems, suffix \in Suffixes }

InitDispatch ==
  /\ pc = "name"
  /\ args \in DispatchNames
  /\ outcome = Idle
  /\ mtx = Idle /\ affineOK = FALSE /\ ras = Idle /\ buf = Idle /\ swp = Idle
  /\ file = Idle /\ images = Idle /\ heap = Idle /\ lastOp = Idle

\* new NVImage(dataBuffer, name): lines 86-107
Dispatch ==
  /\ pc = "name"
  /\ pc' = "dispatched"
  /\ outcome' = SelectDecoder(args)
  /\ UNCHANGED <<mtx, affineOK, ras, buf, swp, args, file, images, heap, lastOp>>

SpecDispatch == InitDispatch /\ [][Dispatch]_vars

(***************************************************************************)
(* SpecNRRD: one call of the constructor on a file named a.nrrd.  The      *)
(* files differ in the spelling of type, in encoding, in the direction and *)
(* other optional lines, in whether a paired buffer is given and in        *)
(* whether the environment defines alert.                                  *)
(***************************************************************************)
NRRDName == <<"a", ".", "n", "r", "r", "d">>

TypeWords ==
  { <<"i", "n", "t">>, <<"I", "n", "t", "3", "2">>, <<"u", "c", "h", "a", "r">>, <<"u", "n", "s", "i", "g", "n", "e", "d", " ", "c", "h", "a", "r">>, <<"s", "h", "o", "r", "t">>, <<"i", "n", "t", "6", "4">>, <<"b", "o", "o", "l">> }

Encodings ==
  { <<"r", "a", "w">>, <<"R", "A", "W">>, <<"g", "z", "i", "p">>, <<"g", "z">>, <<"b", "z", "i", "p", "2">>, <<"a", "s", "c", "i", "i">> }

\* the bytes stored in a file of an encoding the reader does not know
Opaque == <<66, 90, 104, 57>>

DirectionLines ==
  { <<>>,
    <<[key |-> "space directions", value |-> <<"(", "1", ",", "0", ",", "0", ")", " ", "(", "0", ",", "1", ",", "0", ")", " ", "(", "0", ",", "0", ",", "1", ")">>]>>,
    <<[key |-> "space directions", value |-> <<"(", "2", ",", "0", ",", "0", ")", " ", "(", "0", ",", "3", ",", "0", ")", " ", "(", "0", ",", "0", ",", "1", ")">>]>>,
    <<[key |-> "space directions", value |-> <<"n", "o", "n", "e", " ", "(", "1", ",", "0", ",", "0", ")", " ", "(", "0", ",", "1", ",", "0", ")", " ", "(", "0", ",", "0", ",", "1", ")">>]>>,
    <<[key |-> "space directions", value |-> <<"1", " ", "0", " ", "0">>]>> }

\* optional lines, with the byte order they declare for the voxels
ExtraLines ==
  { <<<<>>, FALSE>>,
    <<<<[key |-> "endian", value |-> <<"l", "i", "t", "t", "l", "e">>]>>, TRUE>>,
    <<<<[key |-> "endian", value |-> <<"b", "i", "g">>]>>, FALSE>>,
    <<<<[key |-> "spacings", value |-> <<"1", " ", "1", " ", "1">>]>>, FALSE>>,
    <<<<[key |-> "space", value |-> <<"l", "e", "f", "t", "-", "p", "o", "s", "t", "e", "r", "i", "o", "r", "-", "s", "u", "p", "e", "r", "i", "o", "r">>],
        [key |-> "space origin", value |-> <<"(", "1", ",", "2", ",", "3", ")">>]>>, FALSE>>,
    <<<<[key |-> "space", value |-> <<"R", "A", "S">>]>>, FALSE>>,
    <<<<[key |-> "data file", value |-> <<"a", ".", "r", "a", "w">>]>>, FALSE>> }

\* the voxels <<2, 7>> in the declared type and byte order, where the type
\* is one readNRRD knows
NRRDVoxels(word, le) ==
  IF \E t \in NRRDTypes : t[1] = LowerCased(word)
    THEN Encode((CHOOSE t \in NRRDTypes : t[1] = LowerCased(word))[2], <<2, 7>>, le)
    ELSE <<2, 7>>

NRRDFile(word, sizes, encoding, lines, voxels) ==
  [magic |-> <<"N", "R", "R", "D", "0", "0", "0", "4">>,
   terminated |-> TRUE,
   lines |-> <<[key |-> "type", value |-> word],
               [key |-> "sizes", value |-> sizes],
               [key |-> "encoding", value |-> encoding]>> \o lines,
   gzipped |-> Includes(LowerCased(encoding), <<"g", "z">>),
   stored |-> IF Includes(LowerCased(encoding), <<"r", "a", "w">>) THEN voxels ELSE Opaque,
   inflated |-> IF Includes(LowerCased(encoding), <<"g", "z">>) THEN voxels ELSE <<>>]

\* type int, sizes 4 4 4, encoding raw and no other line
PlainVolume ==
  NRRDFile(<<"i", "n", "t">>, <<"4", " ", "4", " ", "4">>, <<"r", "a", "w">>, <<>>,
           Encode(DT_SIGNED_INT, [i \in 1..(4 * 4 * 4) |-> i % 7], FALSE))

\* directions and origin in microns
MicronVolume ==
  NRRDFile(<<"u", "c", "h", "a", "r">>, <<"2", " ", "1", " ", "1">>, <<"r", "a", "w">>,
           <<[key |-> "space units", value |-> <<"'", "m", "i", "c", "r", "o", "n", "s", "'", " ", "'", "m", "i", "c", "r", "o", "n", "s", "'", " ", "'", "m", "i", "c", "r", "o", "n", "s", "'">>],
             [key |-> "space", value |-> <<"l", "e", "f", "t", "-", "p", "o", "s", "t", "e", "r", "i", "o", "r", "-", "s", "u", "p", "e", "r", "i", "o", "r">>],
             [key |-> "space directions", value |-> <<"(", "1", "0", "0", "0", ",", "0", ",", "0", ")", " ", "(", "0", ",", "2", "0", "0", "0", ",", "0", ")", " ", "(", "0", ",", "0", ",", "1", "0", "0", "0", ")">>],
             [key |-> "space origin", value |-> <<"(", "3", "0", "0", "0", ",", "-", "1", "0", "0", "0", ",", "0", ")">>]>>,
           <<2, 7>>)

\* spacings 2 3 4 listed before the sizes line, and after it
SpacingsFirst ==
  [magic |-> <<"N", "R", "R", "D", "0", "0", "0", "4">>,
   terminated |-> TRUE,
   lines |-> <<[key |-> "type", value |-> <<"u", "c", "h", "a", "r">>],
               [key |-> "spacings", value |-> <<"2", " ", "3", " ", "4">>],
               [key |-> "sizes", value |-> <<"2", " ", "1", " ", "1">>],
               [key |-> "encoding", value |-> <<"r", "a", "w">>]>>,
   gzipped |-> FALSE, stored |-> <<2, 7>>, inflated |-> <<>>]

SpacingsLast ==
  NRRDFile(<<"u", "c", "h", "a", "r">>, <<"2", " ", "1", " ", "1">>, <<"r", "a", "w">>,
           <<[key |-> "spacings", value |-> <<"2", " ", "3", " ", "4">>]>>, <<2, 7>>)

NRRDFiles ==
  { NRRDFile(word, <<"2", " ", "1", " ", "1">>, encoding, dir \o extra[1], NRRDVoxels(word, extra[2])) :
      word \in TypeWords, encoding \in Encodings, dir \in DirectionLines,
      extra \in ExtraLines }
  \cup { PlainVolume, MicronVolume,
         [PlainVolume EXCEPT !.terminated = FALSE],
         [PlainVolume EXCEPT !.magic = <<"N", "R", "D">>],
         SpacingsFirst, SpacingsLast }

InitNRRD ==
  /\ pc = "args"
  /\ args \in { [nrrd |-> f, paired |-> [given |-> given, bytes |-> <<9, 8>>],
                 hasAlert |-> hasAlert] :
                f \in NRRDFiles, given \in BOOLEAN, hasAlert \in BOOLEAN }
  /\ outcome = Idle
  /\ mtx = Idle /\ affineOK = FALSE /\ ras = Idle /\ buf = Idle /\ swp = Idle
  /\ file = Idle /\ images = Idle /\ heap = Idle /\ lastOp = Idle

\* new NVImage(dataBuffer, "a.nrrd", ..., pairedImgData) on a little-endian
\* platform, the other arguments at their defaults
NewNRRD ==
  /\ pc = "args"
  /\ pc' = "done"
  /\ \E d \in {readNRRD(args.nrrd, args.paired, args.hasAlert)} :
       \E r \in {FromDecoder(d, 1, NRRDName, "gray", TRUE, 2, FALSE, FALSE, TRUE)} :
         outcome' = [decoded |-> d, err |-> r.err, image |-> r.image]
  /\ UNCHANGED <<mtx, affineOK, ras, buf, swp, args, file, images, heap, lastOp>>

SpecNRRD == InitNRRD /\ [][NewNRRD]_vars

(***************************************************************************)
(* SpecHEAD: one call of the constructor on a file named a.HEAD with its   *)
(* paired data.  The headers differ in ORIENT_SPECIFIC, DELTA, ORIGIN and  *)
(* in whether they hold IJK_TO_DICOM_REAL.                                 *)
(***************************************************************************)
HEADName == <<"a", ".", "H", "E", "A", "D">>

\* the decimal text of a number of one digit
NumberWord(n) == IF n < 0 THEN <<"-", Digits[1 - n]>> ELSE <<Digits[n + 1]>>

Words(numbers) == [k \in 1..Len(numbers) |-> NumberWord(numbers[k])]

IntegerAttribute(name, numbers) ==
  [type |-> <<"i", "n", "t", "e", "g", "e", "r", "-", "a", "t", "t", "r", "i", "b", "u", "t", "e">>,
   name |-> name, count |-> Len(numbers), words |-> Words(numbers)]

FloatAttribute(name, count, numbers) ==
  [type |-> <<"f", "l", "o", "a", "t", "-", "a", "t", "t", "r", "i", "b", "u", "t", "e">>,
   name |-> name, count |-> count, words |-> Words(numbers)]

ByteOrder ==
  [type |-> <<"s", "t", "r", "i", "n", "g", "-", "a", "t", "t", "r", "i", "b", "u", "t", "e">>,
   name |-> "BYTEORDER_STRING", count |-> 10,
   words |-> << <<"'", "L", "S", "B", "_", "F", "I", "R", "S", "T", "~">> >>]

\* the twelve values of a matrix with spacings 1, 2 and 3
IjkToDicomReal(count) ==
  FloatAttribute("IJK_TO_DICOM_REAL", count, <<1, 0, 0, 4, 0, 2, 0, 5, 0, 0, 3, 6>>)

OrientCodes == 0..5

Deltas == { <<1, 1, 1>>, <<2, 3, 1>>, <<0 - 2, 3, 0 - 1>> }

Origins == { <<0, 0, 0>>, <<5, 0 - 7, 9>> }

HEADFile(brick, orient, delta, origin, more) ==
  << ByteOrder,
     IntegerAttribute("DATASET_DIMENSIONS", <<2, 1, 1, 0, 0>>),
     IntegerAttribute("BRICK_TYPES", <<brick>>),
     IntegerAttribute("ORIENT_SPECIFIC", orient),
     FloatAttribute("ORIGIN", 3, origin),
     FloatAttribute("DELTA", 3, delta) >> \o more

HEADFiles ==
  { HEADFile(0, <<ox, oy, oz>>, delta, origin, more) :
      ox \in OrientCodes, oy \in OrientCodes, oz \in OrientCodes,
      delta \in Deltas, origin \in Origins,
      more \in {<<>>, <<IjkToDicomReal(12)>>} }
  \cup { HEADFile(brick, orient, <<1, 1, 1>>, <<0, 0, 0>>, more) :
           brick \in {1, 3}, orient \in {<<0, 2, 4>>, <<6, 2, 0>>, <<0, 3>>},
           more \in {<<>>, <<IjkToDicomReal(9)>>,
                     <<FloatAttribute("TAXIS_FLOATS", 1, <<2>>)>>} }
  \cup { <<ByteOrder, IntegerAttribute("BRICK_TYPES", <<0>>)>> }

PairedData ==
  { [given |-> FALSE, bytes |-> <<>>, gzipped |-> FALSE, inflated |-> <<>>],
    [given |-> TRUE, bytes |-> <<2, 7>>, gzipped |-> FALSE, inflated |-> <<>>],
    [given |-> TRUE, bytes |-> <<31>>, gzipped |-> TRUE, inflated |-> <<2, 7, 1, 1>>] }

InitHEAD ==
  /\ pc = "args"
  /\ args \in { [head |-> f, paired |-> p] : f \in HEADFiles, p \in PairedData }
  /\ outcome = Idle
  /\ mtx = Idle /\ affineOK = FALSE /\ ras = Idle /\ buf = Idle /\ swp = Idle
  /\ file = Idle /\ images = Idle /\ heap = Idle /\ lastOp = Idle

\* new NVImage(dataBuffer, "a.HEAD", ..., pairedImgData) on a little-endian
\* platform, the other arguments at their defaults
NewHEAD ==
  /\ pc = "args"
  /\ pc' = "done"
  /\ \E d \in {readHEAD(args.head, args.paired)} :
       \E r \in {FromDecoder(d, 1, HEADName, "gray", TRUE, 2, FALSE, FALSE, TRUE)} :
         outcome' = [decoded |-> d, err |-> r.err, image |-> r.image]
  /\ UNCHANGED <<mtx, affineOK, ras, buf, swp, args, file, images, heap, lastOp>>

SpecHEAD == InitHEAD /\ [][NewHEAD]_vars

(***************************************************************************)
(* SpecWiden: the loop of calMinMax entered with lo == hi, one round per   *)
(* step, for histograms that differ in their occupied bins and in the bin  *)
(* the two cuts met in.  The loop runs to its end without interruption.    *)
(***************************************************************************)
WidenBins == {0, 1, 2, 500, 999, nBins - 1}

\* line 1238: let ok = -1, the two walks having met in an occupied bin
InitWiden ==
  /\ pc = "loop"
  /\ args \in { h \in [occupied : SUBSET WidenBins, b : WidenBins] : h.b \in h.occupied }
  /\ outcome = [lo |-> args.b, hi |-> args.b, ok |-> 0 - 1]
  /\ mtx = Idle /\ affineOK = FALSE /\ ras = Idle /\ buf = Idle /\ swp = Idle
  /\ file = Idle /\ images = Idle /\ heap = Idle /\ lastOp = Idle

\* one round of while (ok !== 0)
WidenStep ==
  /\ pc = "loop"
  /\ outcome.ok # 0
  /\ outcome' = WidenRound(args.occupied, outcome)
  /\ UNCHANGED <<pc, mtx, affineOK, ras, buf, swp, args, file, images, heap, lastOp>>

\* the loop test fails: on to line 1251
WidenExit ==
  /\ pc = "loop"
  /\ outcome.ok = 0
  /\ pc' = "widened"
  /\ UNCHANGED <<mtx, affineOK, ras, buf, swp, args, outcome, file, images, heap, lastOp>>

NextWiden == WidenStep \/ WidenExit

SpecWiden == InitWiden /\ [][NextWiden]_vars /\ WF_vars(NextWiden)

(***************************************************************************)
(* SpecMGH: one call of readMGH.  The files differ in their direction      *)
(* cosines, spacings, extents and voxel type; one is gzipped, one ends     *)
(* inside its header and one holds a voxel type readMGH does not know.     *)
(***************************************************************************)
\* the direction of an axis: its r, a and s cosines
MGHAxes ==
  { <<1, 0, 0>>, <<0, 1, 0>>, <<0, 0, 1>>, <<0, 0, 0 - 1>>, <<0 - 1, 0, 0>>, <<1, 1, 0>> }

MGHExtents == { <<2, 4, 6>>, <<2, 2, 2>> }

MGHSpacings == { <<1, 1, 1>>, <<1, 2, 1>> }

\* the bytes of a file: the fields of the header up to byte 90, zeros up to
\* byte 284, then the voxels
MGHBytes(extent, mtype, spacing, x, y, z) ==
  LET int(v) == EncodeElement(DT_SIGNED_INT, v, FALSE)
      float(v) == EncodeElement(DT_FLOAT, v, FALSE)
      width == IF mtype = 0 THEN 1 ELSE IF mtype = 4 THEN 2 ELSE 4
  IN  int(1) \o int(extent[1]) \o int(extent[2]) \o int(extent[3]) \o int(1)
        \o int(mtype) \o int(0) \o <<0, 1>>
        \o float(spacing[1]) \o float(spacing[2]) \o float(spacing[3])
        \o float(x[1]) \o float(x[2]) \o float(x[3])
        \o float(y[1]) \o float(y[2]) \o float(y[3])
        \o float(z[1]) \o float(z[2]) \o float(z[3])
        \o float(0) \o float(0) \o float(0)
        \o [k \in 1..(284 - 90) |-> 0]
        \o [k \in 1..(extent[1] * extent[2] * extent[3] * width) |-> k % 7]

MGHFile(bytes) == [bytes |-> bytes, inflated |-> <<>>]

PlainMGH == MGHBytes(<<2, 4, 6>>, 0, <<1, 1, 1>>, <<1, 0, 0>>, <<0, 1, 0>>, <<0, 0, 1>>)

MGHFiles ==
  { MGHFile(MGHBytes(extent, mtype, spacing, x, y, z)) :
      extent \in MGHExtents, mtype \in {0, 4}, spacing \in MGHSpacings,
      x \in MGHAxes, y \in MGHAxes, z \in MGHAxes }
  \cup { [bytes |-> <<31, 139, 8, 0>>, inflated |-> PlainMGH],
         MGHFile(SubSeq(PlainMGH, 1, 50)),
         MGHFile(<<31>>),
         MGHFile(MGHBytes(<<2, 2, 2>>, 2, <<1, 1, 1>>, <<1, 0, 0>>, <<0, 1, 0>>, <<0, 0, 1>>)) }

InitMGH ==
  /\ pc = "args"
  /\ args \in [mgh : MGHFiles, hasInflate : BOOLEAN, hasAlert : BOOLEAN]
  /\ outcome = Idle
  /\ mtx = Idle /\ affineOK = FALSE /\ ras = Idle /\ buf = Idle /\ swp = Idle
  /\ file = Idle /\ images = Idle /\ heap = Idle /\ lastOp = Idle

\* this.readMGH(dataBuffer)
ReadMGH ==
  /\ pc = "args"
  /\ pc' = "done"
  /\ outcome' = [decoded |-> readMGH(args.mgh, args.hasInflate, args.hasAlert)]
  /\ UNCHANGED <<mtx, affineOK, ras, buf, swp, args, file, images, heap, lastOp>>

SpecMGH == InitMGH /\ [][ReadMGH]_vars

(***************************************************************************)
(* src/wasm/process-image.c.  The module's linear memory holds the file at *)
(* address 0: the NIfTI-1 header, of which the code reads sizeof_hdr,      *)
(* datatype and vox_offset, and behind its 348 bytes the sequence `memory` *)
(* of bytes, the rest of the file followed by whatever the allocator put   *)
(* behind it.  The vox_offset of the model's files is a whole number at or *)
(* behind the end of the header.  An access behind the end of the linear   *)
(* memory traps.  touched is the set of byte addresses InvertFloat32Image  *)
(* reads or writes.                                                        *)
(***************************************************************************)
HeaderBytes == 348

\* lines 17-23, on the bytes of a 32-bit int
Reverse32(value) ==
  LET byte(k) == (value \div Pow256(k)) % 256
  IN  (IF byte(0) >= 128 THEN byte(0) - 256 ELSE byte(0)) * Pow256(3)
        + byte(1) * Pow256(2) + byte(2) * Pow256(1) + byte(3)

\* image[i] of a float * at byte address image
FloatAt(memory, image, i) ==
  FloatValue(Float32Table, [k \in 0..3 |-> memory[image + 4 * i + k - HeaderBytes + 1]], 4)

\* lines 53-61; length is the size_t: its value, or wrapped for one that
\* is above every address
InvertFloat32Image(image, length, memory) ==
  LET end == HeaderBytes + Len(memory)
      whole == IF image > end THEN 0 ELSE (end - image) \div 4
      last == IF length.wrapped THEN whole
              ELSE IF length.value = 0 THEN 0 ELSE length.value - 1
      trap == length.wrapped \/ last >= whole
      reached == IF trap THEN whole ELSE last
      seen == {FloatAt(memory, image, i) : i \in 0..(length.value - 1)}
      mx == IF isNaN(FloatAt(memory, image, 0)) THEN NaN
            ELSE SetMax({FloatAt(memory, image, 0)} \cup {v \in seen : ~isNaN(v)})
      inverted(a) ==
        EncodeElement(DT_FLOAT, Sub(mx, FloatAt(memory, image, (a - image) \div 4)), TRUE)[((a - image) % 4) + 1]
  IN  [trap |-> trap,
       touched |-> {image + 4 * i + k : i \in 0..reached, k \in 0..3},
       memory |-> IF trap THEN memory
                  ELSE [n \in 1..Len(memory) |->
                          IF /\ n + HeaderBytes - 1 >= image
                             /\ n + HeaderBytes - 1 < image + 4 * length.value
                            THEN inverted(n + HeaderBytes - 1)
                            ELSE memory[n]]]

\* lines 38-47: array_length = file_size - offset is a count of bytes
ProcessNiftiOneImage(header, file_size, memory) ==
  LET offset == header.vox_offset
      array_length == IF file_size < offset THEN [wrapped |-> TRUE, value |-> 0]
                      ELSE [wrapped |-> FALSE, value |-> file_size - offset]
      Inverted(r) == [ret |-> 11, trap |-> r.trap, touched |-> r.touched, memory |-> r.memory]
  IN  IF header.datatype # DT_FLOAT
        THEN [ret |-> 0 - 1, trap |-> FALSE, touched |-> {}, memory |-> memory]
      ELSE Inverted(InvertFloat32Image(offset, array_length, memory))

\* lines 49-51
ProcessNiftiTwoImage(header, file_size, memory) ==
  [ret |-> 0, trap |-> FALSE, touched |-> {}, memory |-> memory]

\* lines 26-36
ProcessNiftiImage(header, file_size, memory) ==
  LET size_of_header == header.sizeof_hdr
      swapped == Reverse32(size_of_header)
  IN  IF size_of_header = 348 \/ swapped = 348
        THEN ProcessNiftiOneImage(header, file_size, memory)
      ELSE IF size_of_header = 540
        THEN [ProcessNiftiTwoImage(header, file_size, memory) EXCEPT !.ret = size_of_header]
      ELSE [ret |-> size_of_header, trap |-> FALSE, touched |-> {}, memory |-> memory]

(***************************************************************************)
(* SpecWasm: one call of ProcessNiftiImage.  The files differ in           *)
(* sizeof_hdr, datatype, vox_offset and voxels, the memory in what lies    *)
(* behind the file.                                                        *)
(***************************************************************************)
WasmVoxels == { <<>>, <<1>>, <<1, 2>>, <<2, 0, 1>>, <<NaN, 1>> }

\* the floats behind the file, up to the end of the linear memory
WasmNeighbours == { <<>>, <<2, 2, 2>>, <<0, 1, 2, 0, 1, 2, 0, 1, 2>> }

WasmCall(sizeof_hdr, datatype, vox_offset, voxels, neighbours, cut) ==
  [header |-> [sizeof_hdr |-> sizeof_hdr, datatype |-> datatype, vox_offset |-> vox_offset],
   file_size |-> IF cut THEN HeaderBytes ELSE vox_offset + 4 * Len(voxels),
   memory |-> [k \in 1..(vox_offset - HeaderBytes) |-> 0]
                \o Encode(DT_FLOAT, voxels, TRUE) \o Encode(DT_FLOAT, neighbours, TRUE)]

WasmCalls ==
  { WasmCall(size, dt, off, voxels, neighbours, FALSE) :
      size \in {348, Reverse32(348), 540, 0}, dt \in {DT_FLOAT, DT_SIGNED_SHORT},
      off \in {HeaderBytes, HeaderBytes + 4}, voxels \in WasmVoxels,
      neighbours \in WasmNeighbours }
  \cup { WasmCall(348, DT_FLOAT, HeaderBytes + 4, <<>>, neighbours, TRUE) :
           neighbours \in WasmNeighbours }

InitWasm ==
  /\ pc = "args"
  /\ args \in WasmCalls
  /\ outcome = Idle
  /\ mtx = Idle /\ affineOK = FALSE /\ ras = Idle /\ buf = Idle /\ swp = Idle
  /\ file = Idle /\ images = Idle /\ heap = Idle /\ lastOp = Idle

\* ProcessNiftiImage(nifti_byte_array, file_size, options)
CallProcessNiftiImage ==
  /\ pc = "args"
  /\ pc' = "done"
  /\ outcome' = ProcessNiftiImage(args.header, args.file_size, args.memory)
  /\ UNCHANGED <<mtx, affineOK, ras, buf, swp, args, file, images, heap, lastOp>>

SpecWasm == InitWasm /\ [][CallProcessNiftiImage]_vars

(***************************************************************************)
(* C1: isAffineOK(m) is false exactly when m holds a NaN in one of its 16  *)
(* entries, or a row of the leading 3x3 block is all zero, or a column of  *)
(* that block is all zero.                                                 *)
(***************************************************************************)
HasNaN(m) == \E i \in 0..3 : \E j \in 0..3 : m[i][j] = NaN

ZeroRow(m) == \E i \in 0..2 : \A j \in 0..2 : m[i][j] = 0

ZeroCol(m) == \E j \in 0..2 : \A i \in 0..2 : m[i][j] = 0

C1_IsAffineOKIff ==
  pc = "checked" => (affineOK = FALSE <=> (HasNaN(mtx) \/ ZeroRow(mtx) \/ ZeroCol(mtx)))

\* a matrix rejected only for an all-zero column: no NaN, no zero row
C1_Witness ==
  /\ pc = "checked"
  /\ affineOK = FALSE
  /\ ~HasNaN(mtx) /\ ~ZeroRow(mtx) /\ ZeroCol(mtx)

(***************************************************************************)
(* C3: the axis assignment ixyz and its inverse perm are bijections on     *)
(* {1,2,3}, and every component of flip is 0 or 1.                         *)
(***************************************************************************)
IsBijection123(arr) == DOMAIN arr = 0..2 /\ {arr[k] : k \in 0..2} = {1, 2, 3}

C3_RASBijection ==
  pc = "ras" =>
    /\ IsBijection123(ras.ixyz)
    /\ IsBijection123(ras.perm)
    /\ \A k \in 0..2 : ras.flip[k] \in {0, 1}

\* the two first columns both peak on the same row, so the second axis has
\* to give way; one axis is flipped
C3_Witness ==
  /\ pc = "ras"
  /\ mtx[0][0] = 2 /\ mtx[1][0] = 1 /\ mtx[2][0] = 0
  /\ mtx[0][1] = 2 /\ mtx[1][1] = 1 /\ mtx[2][1] = 0
  /\ ras.ixyz[0] = 1 /\ ras.ixyz[1] = 2 /\ ras.ixyz[2] = 3
  /\ ras.flip[2] = 1

(***************************************************************************)
(* C4: for 16-bit and 32-bit elements one swap pass reverses the bytes of  *)
(* every element, and a second pass restores the buffer bit for bit.       *)
(***************************************************************************)
ElementsReversed(after, before, width) ==
  /\ Len(after) = Len(before)
  /\ \A p \in 1..Len(before) :
       LET i == (p - 1) \div width
           k == (p - 1) % width
       IN  after[p] = before[i * width + width - k]

C4_SwapInvolution ==
  pc = "bytes" =>
    /\ swp.passes = 1 => ElementsReversed(buf, swp.orig, swp.hdr.numBitsPerVoxel \div 8)
    /\ swp.passes = 2 => buf = swp.orig

\* two passes over a 32-bit buffer whose elements have the top bit set and
\* are not palindromes
C4_Witness ==
  /\ pc = "bytes"
  /\ swp.passes = 2
  /\ swp.hdr.numBitsPerVoxel = 32
  /\ swp.orig = <<255, 128, 127, 1, 0, 0, 0, 128>>
  /\ buf = swp.orig

(***************************************************************************)
(* C2: whatever the stored affine, the quaternion and the pixDims, the     *)
(* affine in hdr.affine when the constructor reaches calculateRAS has no   *)
(* NaN entry and no all-zero row or column in its 3x3 block; and when the  *)
(* affine resolved from SForm / QForm fails that check, hdr.affine is the  *)
(* diagonal matrix of the pixel spacings, a NaN or 0 spacing taken as 1,   *)
(* with zero translation.                                                  *)
(***************************************************************************)
Defective(m) == HasNaN(m) \/ ZeroRow(m) \/ ZeroCol(m)

SpacingOr1(v) == IF isNaN(v) \/ v = 0 THEN 1 ELSE v

C2_AffineRepaired ==
  (pc = "done" /\ outcome.via = "new" /\ outcome.hasImage /\ outcome.image.hasRAS) =>
    LET pd == args.decoded.hdr.pixDims
        m == outcome.image.hdr.affine
    IN  /\ ~Defective(m)
        /\ Defective(outcome.resolved) =>
             m = Diag(SpacingOr1(pd[1]), SpacingOr1(pd[2]), SpacingOr1(pd[3]))

\* a header whose resolved affine fails the check and whose spacings hold
\* both a NaN and a 0, constructed up to calculateRAS
C2_Witness ==
  /\ pc = "done" /\ outcome.via = "new" /\ outcome.hasImage /\ outcome.image.hasRAS
  /\ Defective(outcome.resolved)
  /\ isNaN(args.decoded.hdr.pixDims[1]) /\ args.decoded.hdr.pixDims[2] = 0
  /\ outcome.image.hdr.affine = Diag(1, 1, args.decoded.hdr.pixDims[3])

(***************************************************************************)
(* C5: constructing an image from a header whose datatype code is not one  *)
(* of the supported codes fails with the unsupported-datatype error, with  *)
(* no voxel buffer assigned and neither calculateRAS nor calMinMax run.    *)
(***************************************************************************)
SupportedDatatypes ==
  {DT_UNSIGNED_CHAR, DT_SIGNED_SHORT, DT_SIGNED_INT, DT_FLOAT, DT_DOUBLE, DT_RGB,
   DT_INT8, DT_UINT16, DT_UINT32, DT_INT64, DT_RGBA32}

C5_UnsupportedDatatypeError ==
  (/\ pc = "done" /\ outcome.via = "new"
   /\ Ext(args.name) # <<>>
   /\ args.decoded.hdr.datatypeCode \notin SupportedDatatypes) =>
    /\ outcome.err = "datatype not supported"
    /\ ~outcome.image.hasImg
    /\ ~outcome.image.hasRAS
    /\ outcome.image.cal_min = Undefined

(***************************************************************************)
(* C6: a fatal error of the constructor during loadFromUrl or loadFromFile *)
(* reaches the caller as a rejected promise, and no image is delivered.    *)
(***************************************************************************)
C6_LoadFailurePropagates ==
  (pc = "done" /\ outcome.ctorErr \notin {"none", "not run"}) =>
    /\ outcome.settled = "rejected"
    /\ outcome.err = outcome.ctorErr
    /\ ~outcome.hasImage

(***************************************************************************)
(* C7: constructing an image from a header in which dims[1], dims[2] or    *)
(* dims[3] is not greater than 0 ends in an error: no image is returned.   *)
(***************************************************************************)
C7_NonPositiveExtentRejected ==
  (/\ pc = "done" /\ outcome.via = "new"
   /\ \E i \in 1..3 : args.decoded.hdr.dims[i] <= 0) =>
    /\ outcome.err # "none"
    /\ ~outcome.hasImage

(***************************************************************************)
(* C8: after construction and after any sequence of clone, zerosLike,      *)
(* setColorMap, calMinMax and getValue calls (and zeroImage calls), no     *)
(* image holds a hdr.scl_slope of 0; where the file stores a slope of 0 or *)
(* NaN every image holds 1.                                                *)
(***************************************************************************)
C8_SlopeNeverZero ==
  pc = "images" =>
    \A i \in DOMAIN images :
      /\ images[i].hdr.scl_slope # 0
      /\ (isNaN(file.decoded.hdr.scl_slope) \/ file.decoded.hdr.scl_slope = 0) =>
           images[i].hdr.scl_slope = 1

\* a file storing a slope of 0 whose cal_min / cal_max are trusted (calMinMax
\* then scales no intensity), constructed, cloned, recoloured and read
C8_Witness ==
  /\ pc = "images"
  /\ file.decoded.hdr.scl_slope = 0 /\ file.trustCalMinMax
  /\ Len(images) = 2
  /\ images[2].colorMap = "ranged"
  /\ lastOp.op = "getValue"
  /\ images[1].hdr.scl_slope = 1 /\ images[2].hdr.scl_slope = 1

(***************************************************************************)
(* C9: a write into the header arrays (hdr.dims, hdr.pixDims, hdr.affine)  *)
(* or into the voxel buffer of one image changes the header and the voxel  *)
(* buffer of no other image: a clone and its source share no state.        *)
(***************************************************************************)
C9_CloneSharesNoState ==
  [][lastOp'.op = "write" =>
       \A j \in DOMAIN images :
         j # lastOp'.target =>
           /\ images'[j].hdr = images[j].hdr
           /\ images'[j].img = images[j].img]_vars

(***************************************************************************)
(* C10: after any sequence of construct, clone, setColorMap, zeroImage and *)
(* zerosLike calls, the six intensity statistics of every image are those  *)
(* calMinMax computes from the image's header, voxels and colormap as they *)
(* are now.                                                                *)
(***************************************************************************)
StatsOf(im) ==
  <<im.cal_min, im.cal_max, im.robust_min, im.robust_max, im.global_min, im.global_max>>

C10_StatsCurrent ==
  pc = "images" =>
    \A i \in DOMAIN images : StatsOf(images[i]) = StatsOf(calMinMax(images[i]))

(***************************************************************************)
(* C11: after any sequence of construct, clone and zerosLike calls no two  *)
(* image objects carry the same id.                                        *)
(***************************************************************************)
C11_IdsUnique ==
  pc = "images" =>
    \A i, j \in DOMAIN images : i # j => images[i].id # images[j].id

(***************************************************************************)
(* C12: calMinMax applies the first applicable rule of three.  (1) The     *)
(* colormap declares min # max: cal_* and robust_* are that range whatever *)
(* trustCalMinMax and the header say, global_* stay as they were.  (2)     *)
(* Otherwise trustCalMinMax is set and the header has cal_min < cal_max,   *)
(* both numbers: all six statistics are the header's values.  (3)          *)
(* Otherwise the range is the one computed from the voxels.                *)
(***************************************************************************)
Declares(im) ==
  /\ toLowerCase(im.colorMap) \in DOMAIN cmaps
  /\ cmaps[toLowerCase(im.colorMap)].min # cmaps[toLowerCase(im.colorMap)].max

AuthorRange(im) ==
  /\ im.trustCalMinMax
  /\ im.hdr.cal_min # NaN /\ im.hdr.cal_max # NaN
  /\ im.hdr.cal_min < im.hdr.cal_max

C12_RuleOrder ==
  pc = "ranged" =>
    LET range == IF Declares(args) THEN cmaps[toLowerCase(args.colorMap)]
                 ELSE [min |-> args.hdr.cal_min, max |-> args.hdr.cal_max]
        after == outcome.image
    IN  IF Declares(args)
          THEN after = [args EXCEPT !.cal_min = range.min, !.cal_max = range.max,
                                    !.robust_min = range.min, !.robust_max = range.max]
        ELSE IF AuthorRange(args)
          THEN after = [args EXCEPT !.cal_min = range.min, !.cal_max = range.max,
                                    !.robust_min = range.min, !.robust_max = range.max,
                                    !.global_min = range.min, !.global_max = range.max]
        ELSE after = DataRange(args)

\* a colormap with a declared range on an image whose header range would
\* otherwise be trusted: the colormap wins and global_* keep their values
C12_Witness ==
  /\ pc = "ranged"
  /\ Declares(args) /\ AuthorRange(args)
  /\ args.global_min = 5 * Milli
  /\ outcome.image.cal_min = 20 * Milli /\ outcome.image.cal_max = 80 * Milli
  /\ outcome.image.global_min = 5 * Milli /\ outcome.image.global_max = 5 * Milli

(***************************************************************************)
(* C13: in the data-computed path of calMinMax, for every voxel buffer and *)
(* every percentile fraction, the two histogram cut bins satisfy lo <= hi  *)
(* before and after the tie-widening step, and both lie inside the         *)
(* histogram of nBins bins.                                                *)
(***************************************************************************)
InHistogram(cut) ==
  /\ cut[1] <= cut[2]
  /\ cut[1] \in 0..(nBins - 1)
  /\ cut[2] \in 0..(nBins - 1)

C13_CutsOrdered ==
  (pc = "ranged" /\ outcome.cuts.histogram) =>
    InHistogram(outcome.cuts.before) /\ InHistogram(outcome.cuts.after)

(***************************************************************************)
(* C14: in the data-computed path, for MajorityVox voxels of which all but *)
(* one are 0 and one is 1000, ignoreZeroVoxels false and percentileFrac    *)
(* 0.02, calMinMax ends with robust_min = robust_max, cal_min <= cal_max   *)
(* and both within [global_min, global_max].                               *)
(***************************************************************************)
MajorityCase ==
  /\ pc = "ranged"
  /\ args.img = Majority
  /\ ~args.ignoreZeroVoxels
  /\ args.percentileFrac = 2
  /\ toLowerCase(args.colorMap) = "gray"
  /\ ~(args.hdr.cal_min < args.hdr.cal_max)

C14_MajorityCollapses ==
  MajorityCase =>
    /\ outcome.image.robust_min = outcome.image.robust_max
    /\ outcome.image.cal_min <= outcome.image.cal_max
    /\ outcome.image.global_min <= outcome.image.cal_min
    /\ outcome.image.cal_max <= outcome.image.global_max

(***************************************************************************)
(* C15: for every image name given with a data buffer, in any letter case, *)
(* with an unknown extension or with none, the constructor selects exactly *)
(* one decoder: NRRD / NHDR the text-header decoder, MGH / MGZ the second  *)
(* binary decoder, HEAD the text-attribute decoder, every other name the   *)
(* NIfTI decoder.                                                          *)
(***************************************************************************)
EndsWith(name, suffix) ==
  /\ Len(name) >= Len(suffix)
  /\ toUpperCase(SubSeq(name, Len(name) - Len(suffix) + 1, Len(name))) = suffix

C15_OneDecoder ==
  pc = "dispatched" =>
    /\ outcome.err = "none"
    /\ outcome.decoder =
         IF EndsWith(args, <<".", "N", "R", "R", "D">>)
            \/ EndsWith(args, <<".", "N", "H", "D", "R">>) THEN "readNRRD"
         ELSE IF EndsWith(args, <<".", "M", "G", "H">>)
                 \/ EndsWith(args, <<".", "M", "G", "Z">>) THEN "readMGH"
         ELSE IF EndsWith(args, <<".", "H", "E", "A", "D">>) THEN "readHEAD"
         ELSE "nifti.readHeader"

(***************************************************************************)
(* C16: readNRRD treats an "encoding" value that is neither raw nor gzip   *)
(* as a fatal decode error, decoding aborts and no voxel bytes are         *)
(* returned; an unrecognised "type" spelling aborts decoding as well.      *)
(***************************************************************************)
HasLine(nrrd, key, P(_)) ==
  \E k \in 1..Len(nrrd.lines) : nrrd.lines[k].key = key /\ P(NRRDValue(nrrd.lines[k].value))

UnknownEncoding(value) ==
  ~Includes(value, <<"r", "a", "w">>) /\ ~Includes(value, <<"g", "z">>)

UnknownType(value) == \A t \in NRRDTypes : t[1] # value

C16_UnsupportedIsFatal ==
  (pc = "done" /\ args.nrrd.terminated) =>
    /\ HasLine(args.nrrd, "encoding", UnknownEncoding) =>
         outcome.decoded.err # "none" /\ outcome.decoded.imgRaw = <<>>
    /\ HasLine(args.nrrd, "type", UnknownType) => outcome.decoded.err # "none"

(***************************************************************************)
(* C17: when a NRRD header has no "space directions" line of 9 values,     *)
(* readNRRD leaves hdr.affine at its default diagonal value and does not   *)
(* set sform_code; for such a file of type int, sizes 4 4 4, encoding raw, *)
(* construction ends with datatypeCode float64 (64) and the default        *)
(* diagonal affine still in place.                                         *)
(***************************************************************************)
NineValues(value) == Len(Split(value)) = 9

C17_NoDirectionsKeepsDefault ==
  (pc = "done" /\ ~HasLine(args.nrrd, "space directions", NineValues)) =>
    /\ outcome.decoded.hdr.affine = Diag(1, 1, 1)
    /\ outcome.decoded.hdr.sform_code = 0
    /\ (args.nrrd = PlainVolume) =>
         /\ outcome.err = "none"
         /\ outcome.image.hdr.datatypeCode = 64
         /\ outcome.image.hdr.affine = Diag(1, 1, 1)

C17_Witness ==
  /\ pc = "done"
  /\ args.nrrd = PlainVolume
  /\ outcome.err = "none"
  /\ Len(outcome.image.img) = 4 * 4 * 4
  /\ outcome.image.hdr.datatypeCode = DT_DOUBLE
  /\ outcome.image.hdr.sform_code = 0
  /\ outcome.image.hdr.affine = Diag(1, 1, 1)

(***************************************************************************)
(* C18: when a HEAD header has no IJK_TO_DICOM_REAL attribute of 12 values *)
(* and ORIENT_SPECIFIC assigns each of the x, y and z axes exactly once,   *)
(* THD_daxes_to_NIFTI builds an affine whose 3x3 block has exactly one     *)
(* non-zero entry per row and per column: -DELTA on the x-assigned column  *)
(* of row 0, -DELTA on the y-assigned column of row 1, +DELTA on the       *)
(* z-assigned column of row 2, with translation (-origin_x, -origin_y,     *)
(* +origin_z); for codes [0,2,4], origin [0,0,0] and spacing [1,1,1] this  *)
(* is the identity with the first two rows negated.                        *)
(***************************************************************************)
Attribute(head, name) == head[CHOOSE k \in 1..Len(head) : head[k].name = name]

HasAttribute(head, name) == \E k \in 1..Len(head) : head[k].name = name

Numbers(attr) == [k \in 1..Len(attr.words) |-> ParseNumber(attr.words[k])]

\* the slot, counted from 0, of the one axis whose code is in codes
SlotOf(orient, codes) == (CHOOSE k \in 1..3 : orient[k] \in codes) - 1

AssignsEachOnce(orient) ==
  /\ Len(orient) = 3
  /\ \A codes \in {{0, 1}, {2, 3}, {4, 5}} :
       Cardinality({k \in 1..3 : orient[k] \in codes}) = 1

DaxesCase ==
  /\ pc = "done"
  /\ HasAttribute(args.head, "ORIENT_SPECIFIC")
  /\ HasAttribute(args.head, "DELTA") /\ HasAttribute(args.head, "ORIGIN")
  /\ ~(HasAttribute(args.head, "IJK_TO_DICOM_REAL")
       /\ Attribute(args.head, "IJK_TO_DICOM_REAL").count >= 12)
  /\ AssignsEachOnce(Numbers(Attribute(args.head, "ORIENT_SPECIFIC")))

C18_DaxesAffine ==
  DaxesCase =>
    LET orient == Numbers(Attribute(args.head, "ORIENT_SPECIFIC"))
        delta == Numbers(Attribute(args.head, "DELTA"))
        origin == Numbers(Attribute(args.head, "ORIGIN"))
        x == SlotOf(orient, {0, 1})
        y == SlotOf(orient, {2, 3})
        z == SlotOf(orient, {4, 5})
        a == outcome.decoded.hdr.affine
    IN  /\ \A j \in 0..2 :
             /\ a[0][j] = IF j = x THEN 0 - delta[x + 1] ELSE 0
             /\ a[1][j] = IF j = y THEN 0 - delta[y + 1] ELSE 0
             /\ a[2][j] = IF j = z THEN delta[z + 1] ELSE 0
        /\ a[0][3] = 0 - origin[x + 1]
        /\ a[1][3] = 0 - origin[y + 1]
        /\ a[2][3] = origin[z + 1]
        /\ (orient = <<0, 2, 4>> /\ delta = <<1, 1, 1>> /\ origin = <<0, 0, 0>>) =>
             a = Diag(0 - 1, 0 - 1, 1)

(***************************************************************************)
(* C19: the constructor replaces the header affine by the transform        *)
(* derived from the quaternion if and only if useQFormNotSForm is set, or  *)
(* the header affine fails isAffineOK, or qform_code > sform_code; when    *)
(* none of the three holds, hdr.affine is left exactly as decoded.         *)
(***************************************************************************)
QFormWanted ==
  \/ args.useQFormNotSForm
  \/ ~isAffineOK(args.decoded.hdr.affine)
  \/ args.decoded.hdr.qform_code > args.decoded.hdr.sform_code

C19_QFormSelection ==
  (pc = "done" /\ outcome.resolved # <<>>) =>
    IF QFormWanted
      THEN outcome.resolved = QFormAffine(args.decoded.hdr)
      ELSE /\ outcome.resolved = args.decoded.hdr.affine
           /\ outcome.err = "none" => outcome.image.hdr.affine = args.decoded.hdr.affine

\* both outcomes on headers whose quaternion gives another matrix than the
\* one stored
C19_Witness ==
  /\ pc = "done" /\ outcome.err = "none"
  /\ ~args.useQFormNotSForm
  /\ isAffineOK(args.decoded.hdr.affine)
  /\ args.decoded.hdr.qform_code > args.decoded.hdr.sform_code
  /\ outcome.resolved = QFormAffine(args.decoded.hdr)
  /\ outcome.resolved # args.decoded.hdr.affine
  /\ isAffineOK(outcome.resolved)

C19_WitnessKept ==
  /\ pc = "done" /\ outcome.err = "none"
  /\ ~QFormWanted
  /\ outcome.image.hdr.affine = args.decoded.hdr.affine
  /\ QFormAffine(args.decoded.hdr) # args.decoded.hdr.affine

(***************************************************************************)
(* C20: in the quaternion expansion a is sqrt(max(0, 1 - (b^2 + c^2 +      *)
(* d^2))): when the stored b, c, d have b^2 + c^2 + d^2 > 1, a is 0, the   *)
(* resulting affine holds no NaN and is kept rather than replaced by the   *)
(* diagonal repair.                                                        *)
(***************************************************************************)
OverUnitQuaternion ==
  LET h == args.decoded.hdr
  IN  /\ pc = "done" /\ outcome.resolved # <<>>
      /\ QFormWanted
      /\ \A v \in {h.quatern_b, h.quatern_c, h.quatern_d, h.qoffset_x, h.qoffset_y,
                   h.qoffset_z, h.pixDims[0], h.pixDims[1], h.pixDims[2], h.pixDims[3]} :
           v # NaN
      /\ h.quatern_b * h.quatern_b + h.quatern_c * h.quatern_c
           + h.quatern_d * h.quatern_d > QuatOne

C20_OverUnitQuaternionKept ==
  OverUnitQuaternion =>
    /\ ~HasNaN(outcome.resolved)
    /\ (outcome.err = "none" /\ isAffineOK(outcome.resolved)) =>
         outcome.image.hdr.affine = outcome.resolved

(***************************************************************************)
(* C21: in calculateRAS each axis goes to the candidate with the largest   *)
(* absolute coefficient, and of two candidates equal in magnitude the      *)
(* lower-numbered axis wins (1 over 2 over 3), for the first assigned axis *)
(* and for the second, which chooses between the two axes not yet taken.   *)
(***************************************************************************)
Magnitude(v) == IF v < 0 THEN 0 - v ELSE v

\* the lowest-numbered axis among those of candidates whose coefficient in
\* column col is largest in magnitude
LargestLowest(m, col, candidates) ==
  CHOOSE k \in candidates :
    \A other \in candidates :
      \/ Magnitude(m[k - 1][col]) > Magnitude(m[other - 1][col])
      \/ (Magnitude(m[k - 1][col]) = Magnitude(m[other - 1][col]) /\ k <= other)

NumericColumns(m) == \A i \in 0..2 : \A j \in 0..1 : m[i][j] # NaN

C21_TieBreakLowest ==
  (pc = "ras" /\ NumericColumns(mtx)) =>
    /\ ras.ixyz[0] = LargestLowest(mtx, 0, {1, 2, 3})
    /\ ras.ixyz[1] = LargestLowest(mtx, 1, {1, 2, 3} \ {ras.ixyz[0]})

(***************************************************************************)
(* C22: when the stored endianness differs from the platform's, bits per   *)
(* voxel is 64 and the datatype is not RGB / RGBA, the constructor's swap  *)
(* pass completes without error and reverses all 8 bytes of every element  *)
(* of the voxel buffer.                                                    *)
(***************************************************************************)
ForeignWide ==
  /\ pc = "done"
  /\ Ext(args.name) # <<>>
  /\ args.decoded.hdr.littleEndian # args.platformLE
  /\ args.decoded.hdr.numBitsPerVoxel = 64
  /\ args.decoded.hdr.datatypeCode \notin {DT_RGB, DT_RGBA32}
  /\ Len(args.decoded.imgRaw) > 0

C22_WideSwapCompletes ==
  ForeignWide =>
    /\ outcome.err # "ReferenceError"
    /\ SwapBytes(args.decoded.hdr, args.decoded.imgRaw, args.platformLE).err = "none"
    /\ ElementsReversed(SwapBytes(args.decoded.hdr, args.decoded.imgRaw, args.platformLE).raw,
                        args.decoded.imgRaw, 8)

(***************************************************************************)
(* C23: for the datatype codes INT8, UINT32, INT32 and INT64 the decoded   *)
(* buffer has the element count n of the source, elements 0..n-2 equal the *)
(* source values, element n-1 is 0 (the last source element is not         *)
(* copied), and hdr.datatypeCode is rewritten to SIGNED_SHORT for INT8 and *)
(* to DOUBLE for the other three.                                          *)
(***************************************************************************)
PromotedCodes == {DT_INT8, DT_UINT32, DT_SIGNED_INT, DT_INT64}

\* the typed view the switch takes of the (byte-swapped) voxel bytes
SourceView ==
  LET dt == args.decoded.hdr.datatypeCode
      kind == CASE dt = DT_INT8 -> "Int8"
                [] dt = DT_UINT32 -> "Uint32"
                [] dt = DT_SIGNED_INT -> "Int32"
                [] OTHER -> "BigInt64"
  IN  TypedArray(kind,
                 SwapBytes(args.decoded.hdr, args.decoded.imgRaw, args.platformLE).raw,
                 args.platformLE).arr

PromotedCase ==
  /\ pc = "done"
  /\ outcome.hasImage
  /\ args.decoded.hdr.datatypeCode \in PromotedCodes

C23_PromotionDropsLast ==
  PromotedCase =>
    /\ Len(outcome.image.img) = Len(SourceView)
    /\ \A i \in 1..(Len(SourceView) - 1) : outcome.image.img[i] = SourceView[i]
    /\ Len(SourceView) > 0 => outcome.image.img[Len(SourceView)] = 0
    /\ outcome.image.hdr.datatypeCode =
         (IF args.decoded.hdr.datatypeCode = DT_INT8 THEN DT_SIGNED_SHORT ELSE DT_DOUBLE)

\* three elements whose last is not 0 have been promoted from 64-bit integers
C23_Witness ==
  /\ PromotedCase
  /\ args.decoded.hdr.datatypeCode = DT_INT64
  /\ SourceView = <<2, 0, 1000>>
  /\ outcome.image.img = <<2, 0, 0>>

(***************************************************************************)
(* C24: in the data-computed path of calMinMax, whenever                   *)
(* n2pct = round((nVox - excluded) * percentileFrac) is less than 1 or the *)
(* raw minimum equals the raw maximum, the robust range and the global     *)
(* range both collapse to a single scaled value:                           *)
(* robust_min == robust_max == global_min == global_max.                   *)
(***************************************************************************)
NoVariability ==
  LET r == FullRange(args.img, args.ignoreZeroVoxels)
  IN  /\ pc = "ranged"
      /\ RangeRule(args) = "data"
      /\ (Percentile(args, r) < 1 \/ StrictEq(r.mn, r.mx))

C24_NoVariabilityCollapses ==
  NoVariability =>
    /\ StrictEq(outcome.image.robust_min, outcome.image.robust_max)
    /\ StrictEq(outcome.image.robust_max, outcome.image.global_min)
    /\ StrictEq(outcome.image.global_min, outcome.image.global_max)

(***************************************************************************)
(* C25: when the low and high histogram cuts coincide, the widening loop   *)
(* of calMinMax terminates for every histogram, moving lo down and hi up   *)
(* one bin at a time, and on exit lo and hi are not both still at the      *)
(* starting bin: either a populated neighbouring bin was reached or        *)
(* lo = 0 and hi = 1000.                                                   *)
(***************************************************************************)
OneBinAtATime ==
  /\ outcome'.lo \in {outcome.lo, outcome.lo - 1}
  /\ outcome'.hi \in {outcome.hi, outcome.hi + 1}

WidenedFurther ==
  /\ ~(outcome.lo = args.b /\ outcome.hi = args.b)
  /\ \/ outcome.lo < args.b /\ outcome.lo \in args.occupied
     \/ outcome.hi > args.b /\ outcome.hi \in args.occupied
     \/ outcome.lo = 0 /\ outcome.hi = nBins - 1

C25_WideningTerminates ==
  /\ <>(pc = "widened")
  /\ [][OneBinAtATime]_vars
  /\ [](pc = "widened" => WidenedFurther)

\* from bin 500 the loop has run 499 rounds, to the occupied bin 999
C25_Witness ==
  /\ pc = "widened"
  /\ args.b = 500 /\ args.occupied = {500, 999}
  /\ outcome.lo = 1 /\ outcome.hi = 999

(***************************************************************************)
(* C26: in the data-computed path of calMinMax, the header's cal_min /     *)
(* cal_max replace the computed percentile cuts if and only if             *)
(* cal_min < cal_max and both lie strictly inside the scaled global range  *)
(* (global_min < cal_min and cal_max < global_max); a header value equal   *)
(* to global_min or global_max does not override.                          *)
(***************************************************************************)
\* pct2 and pct98 as lines 1251-1252 compute them from the cut bins
ComputedCuts ==
  LET r == FullRange(args.img, args.ignoreZeroVoxels)
      at(k) == IF isNaN(r.mn) THEN NaN
               ELSE outcome.cuts.after[k] * (r.mx - r.mn) + Milli * r.mn
  IN  <<intensityRaw2Scaled(outcome.image.hdr, at(1)).val,
        intensityRaw2Scaled(outcome.image.hdr, at(2)).val>>

StrictlyInside ==
  /\ Lt(args.hdr.cal_min, args.hdr.cal_max)
  /\ Lt(outcome.image.global_min, args.hdr.cal_min)
  /\ Lt(args.hdr.cal_max, outcome.image.global_max)

C26_OverrideStrictlyInside ==
  (pc = "ranged" /\ outcome.cuts.histogram) =>
    <<outcome.image.cal_min, outcome.image.cal_max>> =
      (IF StrictlyInside THEN <<args.hdr.cal_min, args.hdr.cal_max>> ELSE ComputedCuts)

(***************************************************************************)
(* C27: when readNRRD parses a "spacings" line, it sets pixDims[1..n] to   *)
(* the n listed spacing values and leaves hdr.dims untouched, whether the  *)
(* "spacings" line comes before or after the "sizes" line, and parsing     *)
(* continues with the next header line.                                    *)
(***************************************************************************)
\* a file whose other lines readNRRD parses without an error
SpacingsCase ==
  /\ pc = "done"
  /\ args.nrrd \in {SpacingsFirst, SpacingsLast}

C27_SpacingsSetPixDims ==
  SpacingsCase =>
    /\ outcome.decoded.err = "none"
    /\ \A d \in 1..3 : outcome.decoded.hdr.pixDims[d] = d + 1
    /\ outcome.decoded.hdr.dims[0] = 3
    /\ <<outcome.decoded.hdr.dims[1], outcome.decoded.hdr.dims[2],
         outcome.decoded.hdr.dims[3]>> = <<2, 1, 1>>
    /\ outcome.decoded.imgRaw = <<2, 7>>

(***************************************************************************)
(* C28: readMGH builds the affine so that its translation column equals    *)
(* M * (dims/2), where M is the 3x3 block of that same affine (direction   *)
(* cosines times spacing) and dims/2 = (width/2, height/2, depth/2), for   *)
(* every direction-cosine matrix including non-symmetric ones.             *)
(***************************************************************************)
\* row i of the affine's 3x3 block times (width/2, height/2, depth/2)
BlockTimesCentre(hdr, i) ==
  Add(Add(Mul(hdr.affine[i][0], HalfOf(hdr.dims[1])),
          Mul(hdr.affine[i][1], HalfOf(hdr.dims[2]))),
      Mul(hdr.affine[i][2], HalfOf(hdr.dims[3])))

C28_TranslationIsBlockTimesCentre ==
  (pc = "done" /\ outcome.decoded.err = "none") =>
    \A i \in 0..2 : outcome.decoded.hdr.affine[i][3] = BlockTimesCentre(outcome.decoded.hdr, i)

(***************************************************************************)
(* C29: for a NIfTI-1 float32 file of file_size bytes, ProcessNiftiImage   *)
(* reads and writes only float elements that lie inside the voxel region   *)
(* [vox_offset, file_size) of the byte array passed in: the element index  *)
(* used by InvertFloat32Image never addresses a byte at or beyond          *)
(* file_size.                                                              *)
(***************************************************************************)
FloatFile ==
  /\ pc = "done"
  /\ (args.header.sizeof_hdr = 348 \/ Reverse32(args.header.sizeof_hdr) = 348)
  /\ args.header.datatype = DT_FLOAT

C29_InsideVoxelRegion ==
  FloatFile =>
    /\ ~outcome.trap
    /\ \A a \in outcome.touched : args.header.vox_offset <= a /\ a < args.file_size

====
